---------------------------- MODULE Spec2Model ----------------------------
(***************************************************************************)
(* A model of the NLEIS toolbox core:                                      *)
(*   - individual_parameters (nleis_fitting.py), the splitting of one      *)
(*     combined parameter vector into the EIS list p1 and the 2nd-NLEIS    *)
(*     list p2;                                                            *)
(*   - the element decorator, the registry circuit_elements and            *)
(*     typeChecker (nleis_elements_pair.py);                               *)
(*   - the ladder elements TLM, TLMS, TLMD and their second-harmonic       *)
(*     pairs TLMn, TLMSn, TLMDn with the current fractions of mTi, at one  *)
(*     frequency point and in exact rational arithmetic, and the           *)
(*     second-harmonic current distributions mTiSn and mTiDn;              *)
(*   - the difference operator d;                                          *)
(*   - data_processing and simul_fit with its wrapped circuit              *)
(*     (nleis_fitting.py).                                                 *)
(* Element names are sequences of one-character strings, so that the       *)
(* string operations of the code (replace, slicing, membership, format)    *)
(* are computed and not assumed.                                           *)
(***************************************************************************)
EXTENDS Integers, Sequences, FiniteSets, TLC

VARIABLES
    \* ---- individual_parameters ----
    elements_1,     \* extract_circuit_elements(edited_circuit): list of names
    parameters,     \* the combined parameter vector
    constants_1,    \* keys of the EIS constants dict
    constants_2,    \* keys of the 2nd-NLEIS constants dict
    p1, p2,         \* the two output lists
    index,          \* next slot of parameters to consume
    ei, j,          \* position of the two nested loops (ei 1-based, j 0-based)
    pc,             \* "start" | "loop" | "done" | "error" | "off"
    src1, src2,     \* history: for every entry of p1 / p2, where it came from
    \* ---- element registration ----
    circuit_elements,   \* the registry: name -> registered object
    req,                \* the registration being made: func.__name__, the
                        \* function, num_params, overwrite
    raised,             \* what the registration raised: "none" or the error
    \* ---- a call of a registered element wrapper ----
    call_p,         \* the argument p: NotAList, or a list of entry types
    call_f,         \* the argument f: the types of its entries
    length,         \* num_params of the called element
    cpc,            \* position in wrapper / typeChecker
    ci,             \* position of the running for loop of typeChecker
    invoked,        \* whether func(p, f) was called
    \* ---- a call of a ladder element at one frequency point ----
    lfn,            \* the element called: "TLM", "TLMn", "TLMS", ...
    lp,             \* its parameter list p
    memo,           \* the values the elementary elements have returned so
                    \* far, by element, arguments and frequency multiple
    lpc,            \* position in the element's code
    N, Rpore, Zran, \* locals of the element
    Req, li,        \* the running reduction and its loop variable i
    updates,        \* history: how often the loop body has run
    I1,             \* the current fractions mTi returned
    Z1, Z2, Z12t,   \* unit impedances of the second-harmonic elements
    result,         \* the returned value
    \* ---- a call of the difference operator d ----
    difference,     \* its argument: the list of branch responses
    z,              \* its local z
    dpc,            \* position in d
    \* ---- a call of data_processing ----
    dp_f, dp_Z1, dp_Z2,   \* its locals f, Z1, Z2 (rebound by the filtering)
    dp_max_f,             \* its argument max_f
    f2_truncated, Z2_truncated,
    dp_pc,                \* position in data_processing
    in_f, in_Z1, in_Z2,   \* history: the arguments as passed
    \* ---- a call of simul_fit ----
    frequencies, fit_Z1, fit_Z2,  \* its locals frequencies, Z1, Z2
    bounds, initial_guess,        \* its locals bounds, initial_guess
    opt, max_f, param_norm, positive,
    ub,                           \* its local ub, <<>> while it is unbound
    warned,                       \* whether warnings.warn was called
    popt, pcov,                   \* what the optimizer returned
    ret,                          \* the returned value
    fpc,                          \* position in simul_fit
    arg_bounds, arg_initial_guess,   \* history: the arguments as passed
    arg_frequencies, arg_Z1, arg_Z2,
    \* ---- the vectors simul_fit and its wrapped circuit hand to curve_fit ----
    Zstack,               \* the target vector
    sigma,                \* kwargs['sigma']
    wrap_f2,              \* f2 in the wrapped function
    wrap_y                \* what wrappedCircuit_simul returns, entry by entry

pvars == <<elements_1, parameters, constants_1, constants_2, p1, p2, index,
           ei, j, pc, src1, src2>>

rvars == <<circuit_elements, req, raised>>

cvars == <<call_p, call_f, length, cpc, ci, invoked>>

lvars == <<lfn, lp, memo, lpc, N, Rpore, Zran, Req, li, updates, I1,
           Z1, Z2, Z12t, result>>

dvars == <<difference, z, dpc>>

gvars == <<dp_f, dp_Z1, dp_Z2, dp_max_f, f2_truncated, Z2_truncated, dp_pc,
           in_f, in_Z1, in_Z2>>

fvars == <<frequencies, fit_Z1, fit_Z2, bounds, initial_guess, opt, max_f,
           param_norm, positive, ub, warned, popt, pcov, ret, fpc,
           arg_bounds, arg_initial_guess, arg_frequencies, arg_Z1, arg_Z2>>

svars == <<Zstack, sigma, wrap_f2, wrap_y>>

vars == <<pvars, rvars, cvars, lvars, dvars, gvars, fvars, svars>>

\* the variables a component leaves alone
notPartition == <<rvars, cvars, lvars, dvars, gvars, fvars, svars>>
notRegistry == <<pvars, cvars, lvars, dvars, gvars, fvars, svars>>
notCall == <<pvars, rvars, lvars, dvars, gvars, fvars, svars>>
notLadder == <<pvars, rvars, cvars, dvars, gvars, fvars, svars>>
notDiff == <<pvars, rvars, cvars, lvars, gvars, fvars, svars>>
notData == <<pvars, rvars, cvars, lvars, dvars, fvars, svars>>
notFit == <<pvars, rvars, cvars, lvars, dvars, gvars>>

-----------------------------------------------------------------------------
(* Bounds of the model *)

MaxElems == 2
MaxParams == 5
MaxConst == 2

-----------------------------------------------------------------------------
(* Names *)

Digits == {"0", "1", "2", "3", "4", "5", "6", "7", "8", "9"}

DigitOf(n) ==
    CASE n = 0 -> "0" [] n = 1 -> "1" [] n = 2 -> "2" [] n = 3 -> "3"
      [] n = 4 -> "4" [] n = 5 -> "5" [] n = 6 -> "6" [] n = 7 -> "7"
      [] n = 8 -> "8" [] n = 9 -> "9"

\* ''.join(char for char in name if char not in '0123456789_')
get_element_from_name(name) ==
    SelectSeq(name, LAMBDA c : c \notin (Digits \cup {"_"}))

\* elem.replace("n", "")
replace_n(elem) == SelectSeq(elem, LAMBDA c : c # "n")

\* 'n' in elem
contains_n(elem) == \E i \in 1..Len(elem) : elem[i] = "n"

\* elem + '_{}'.format(j)
qualified(elem, k) == elem \o <<"_", DigitOf(k)>>

\* raw_elem[0:-1]
drop_last(raw) == SubSeq(raw, 1, Len(raw) - 1)

\* elem[0] == 'T' or elem[0:2] == 'RC'
has_twin_prefix(elem) ==
    \/ Len(elem) >= 1 /\ elem[1] = "T"
    \/ Len(elem) >= 2 /\ SubSeq(elem, 1, 2) = <<"R", "C">>

\* check_and_eval(raw).num_params: the arity the decorator stored for the
\* registered element (R is the one-parameter resistor of impedance.py).
num_params(raw) ==
    CASE raw = <<"R">> -> 1
      [] raw = <<"R", "C", "O">> -> 2
      [] raw = <<"R", "C", "O", "n">> -> 3
      [] raw = <<"T", "P", "O">> -> 3
      [] raw = <<"T", "P", "O", "n">> -> 4

\* The element instances a merged circuit of the model may name.
ElemNames ==
    { <<"R", "0">>,
      <<"R", "C", "O", "0">>,
      <<"R", "C", "O", "n", "1">>,
      <<"T", "P", "O", "n", "2">> }

-----------------------------------------------------------------------------
(* individual_parameters *)

nleis_elem_number(elem) == num_params(get_element_from_name(elem))

eis_elem_number(elem) ==
    IF has_twin_prefix(elem) /\ contains_n(elem)
    THEN num_params(drop_last(get_element_from_name(elem)))
    ELSE nleis_elem_number(elem)

None == <<>>

eis_current_elem(elem, k) ==
    IF eis_elem_number(elem) > 1
    THEN IF k < eis_elem_number(elem) THEN qualified(replace_n(elem), k)
                                      ELSE None
    ELSE elem

nleis_current_elem(elem, k) ==
    IF eis_elem_number(elem) > 1 THEN qualified(elem, k) ELSE elem

\* mutant: the EIS constants are never looked at
skip_1_never(elem, k, c1) == FALSE

\* if eis_current_elem in constants_1.keys(): continue
skip_1(elem, k, c1) == eis_current_elem(elem, k) \in c1

\* mutant: the 2nd-NLEIS constants are never looked at
skip_2_never(elem, k, c1, c2) == FALSE

\* elif (nleis_current_elem in constants_2.keys() and
\*       eis_current_elem not in constants_1.keys()): continue
skip_2(elem, k, c1, c2) ==
    /\ nleis_current_elem(elem, k) \in c2
    /\ eis_current_elem(elem, k) \notin c1

\* the branch of the final else that appends to p1
to_p1(elem, k) ==
    \/ eis_elem_number(elem) = 1
    \/ eis_elem_number(elem) > 1 /\ k < eis_elem_number(elem)

\* mutant: a shared sub-parameter is appended to p2 whatever the arities
to_p2_always_shared(elem, k) ==
    IF eis_elem_number(elem) = 1 THEN FALSE ELSE TRUE

\* mutant: the parameter of a one-parameter element is appended to p2 too
to_p2_single_shared(elem, k) ==
    IF eis_elem_number(elem) = 1 THEN TRUE
    ELSE IF eis_elem_number(elem) > 1 /\ k < eis_elem_number(elem)
         THEN nleis_elem_number(elem) > eis_elem_number(elem)
         ELSE TRUE

\* the branches of the final else that append to p2
to_p2(elem, k) ==
    IF eis_elem_number(elem) = 1 THEN FALSE
    ELSE IF eis_elem_number(elem) > 1 /\ k < eis_elem_number(elem)
         THEN nleis_elem_number(elem) > eis_elem_number(elem)
         ELSE TRUE

\* mutant: the last slot of the list counts as out of range
in_range_off_by_one(ps, ix) == ix + 1 < Len(ps)

\* parameters[index] with the list's 0-based index; beyond the end Python
\* raises IndexError
in_range(ps, ix) == ix < Len(ps)

\* mutant: the slot index stays where it is
next_index_stays(ix) == ix

\* index += 1
next_index(ix) == ix + 1

\* the loop position after sub-parameter (e, k) of the nested for loops
next_e(e, k) == IF k + 1 < nleis_elem_number(elements_1[e]) THEN e ELSE e + 1
next_j(e, k) == IF k + 1 < nleis_elem_number(elements_1[e]) THEN k + 1 ELSE 0

Origin(e, k, ix) == [e |-> e, j |-> k, slot |-> ix]

\* if edited_circuit == '': return [], []
EarlyReturn ==
    /\ pc = "start"
    /\ elements_1 = <<>>
    /\ pc' = "done"
    /\ UNCHANGED <<elements_1, parameters, constants_1, constants_2, p1, p2,
                   index, ei, j, src1, src2>>
    /\ UNCHANGED notPartition

\* p1 = []; p2 = []; index = 0; for elem in elements_1:
Begin ==
    /\ pc = "start"
    /\ elements_1 # <<>>
    /\ pc' = "loop"
    /\ p1' = <<>> /\ p2' = <<>> /\ index' = 0
    /\ ei' = 1 /\ j' = 0
    /\ UNCHANGED <<elements_1, parameters, constants_1, constants_2,
                   src1, src2>>
    /\ UNCHANGED notPartition

\* one iteration of the inner loop that ends in a continue
SkipConstant ==
    /\ pc = "loop"
    /\ ei <= Len(elements_1)
    /\ \/ skip_1(elements_1[ei], j, constants_1)
       \/ skip_2(elements_1[ei], j, constants_1, constants_2)
    /\ ei' = next_e(ei, j)
    /\ j' = next_j(ei, j)
    /\ UNCHANGED <<elements_1, parameters, constants_1, constants_2, p1, p2,
                   index, pc, src1, src2>>
    /\ UNCHANGED notPartition

\* one iteration of the inner loop that reaches the final else
Consume ==
    /\ pc = "loop"
    /\ ei <= Len(elements_1)
    /\ ~ skip_1(elements_1[ei], j, constants_1)
    /\ ~ skip_2(elements_1[ei], j, constants_1, constants_2)
    /\ in_range(parameters, index)
    /\ LET elem == elements_1[ei]
           v == parameters[index + 1]
       IN  /\ p1' = IF to_p1(elem, j) THEN Append(p1, v) ELSE p1
           /\ src1' = IF to_p1(elem, j)
                      THEN Append(src1, Origin(ei, j, index)) ELSE src1
           /\ p2' = IF to_p2(elem, j) THEN Append(p2, v) ELSE p2
           /\ src2' = IF to_p2(elem, j)
                      THEN Append(src2, Origin(ei, j, index)) ELSE src2
    /\ index' = next_index(index)
    /\ ei' = next_e(ei, j)
    /\ j' = next_j(ei, j)
    /\ UNCHANGED <<elements_1, parameters, constants_1, constants_2, pc>>
    /\ UNCHANGED notPartition

\* parameters[index] past the end of the list
RaiseIndexError ==
    /\ pc = "loop"
    /\ ei <= Len(elements_1)
    /\ ~ skip_1(elements_1[ei], j, constants_1)
    /\ ~ skip_2(elements_1[ei], j, constants_1, constants_2)
    /\ ~ in_range(parameters, index)
    /\ pc' = "error"
    /\ UNCHANGED <<elements_1, parameters, constants_1, constants_2, p1, p2,
                   index, ei, j, src1, src2>>
    /\ UNCHANGED notPartition

\* return p1, p2
Return ==
    /\ pc = "loop"
    /\ ei > Len(elements_1)
    /\ pc' = "done"
    /\ UNCHANGED <<elements_1, parameters, constants_1, constants_2, p1, p2,
                   index, ei, j, src1, src2>>
    /\ UNCHANGED notPartition

-----------------------------------------------------------------------------
(* Components that a specification does not run *)

PartitionOff ==
    /\ elements_1 = <<>> /\ parameters = <<>>
    /\ constants_1 = {} /\ constants_2 = {}
    /\ p1 = <<>> /\ p2 = <<>> /\ index = 0 /\ ei = 0 /\ j = 0
    /\ pc = "off"
    /\ src1 = <<>> /\ src2 = <<>>

RegistryOff ==
    /\ circuit_elements = <<>> /\ req = <<>> /\ raised = "off"

CallOff ==
    /\ call_p = <<>> /\ call_f = <<>> /\ length = 0
    /\ cpc = "off" /\ ci = 0 /\ invoked = FALSE

LadderOff ==
    /\ lfn = "" /\ lp = <<>> /\ memo = <<>> /\ lpc = "off"
    /\ N = 0 /\ Rpore = <<>> /\ Zran = <<>> /\ Req = <<>> /\ li = 0
    /\ updates = 0 /\ I1 = <<>> /\ Z1 = <<>> /\ Z2 = <<>> /\ Z12t = <<>>
    /\ result = <<>>

DiffOff == difference = <<>> /\ z = <<>> /\ dpc = "off"

DataOff ==
    /\ dp_f = <<>> /\ dp_Z1 = <<>> /\ dp_Z2 = <<>> /\ dp_max_f = 0
    /\ f2_truncated = <<>> /\ Z2_truncated = <<>> /\ dp_pc = "off"
    /\ in_f = <<>> /\ in_Z1 = <<>> /\ in_Z2 = <<>>

FitOff ==
    /\ frequencies = <<>> /\ fit_Z1 = <<>> /\ fit_Z2 = <<>>
    /\ bounds = <<>> /\ initial_guess = <<>>
    /\ opt = "" /\ max_f = 0 /\ param_norm = FALSE /\ positive = FALSE
    /\ ub = <<>> /\ warned = FALSE /\ popt = <<>> /\ pcov = <<>> /\ ret = <<>>
    /\ fpc = "off"
    /\ arg_bounds = <<>> /\ arg_initial_guess = <<>>
    /\ arg_frequencies = <<>> /\ arg_Z1 = <<>> /\ arg_Z2 = <<>>

StackOff == Zstack = <<>> /\ sigma = <<>> /\ wrap_f2 = <<>> /\ wrap_y = <<>>

-----------------------------------------------------------------------------
(* Inputs of individual_parameters *)

RECURSIVE SeqsUpTo(_, _)
SeqsUpTo(S, n) ==
    IF n = 0 THEN {<<>>}
    ELSE LET shorter == SeqsUpTo(S, n - 1)
         IN  shorter \cup {Append(s, x) : s \in shorter, x \in S}

RECURSIVE SlotsOf(_)
SlotsOf(c) ==
    IF c = <<>> THEN 0 ELSE nleis_elem_number(Head(c)) + SlotsOf(Tail(c))

\* a merged circuit names each element instance once; circuits that need
\* more than MaxParams + 1 slots are left out (no vector of the model is
\* within one slot of fitting them)
Circuits ==
    { c \in SeqsUpTo(ElemNames, MaxElems) :
        /\ \A a, b \in 1..Len(c) : a # b => c[a] # c[b]
        /\ SlotsOf(c) <= MaxParams + 1 }

\* parameter vectors: every slot holds a value of its own
ParamVectors == { [i \in 1..n |-> 10 + i] : n \in 0..MaxParams }

\* the names under which the sub-parameters of a circuit can be held constant
SubIndexes(elem) == 0..(nleis_elem_number(elem) - 1)
Keys1(c) ==
    UNION { { eis_current_elem(c[e], k) : k \in SubIndexes(c[e]) } :
            e \in 1..Len(c) } \ {None}
Keys2(c) ==
    UNION { { nleis_current_elem(c[e], k) : k \in SubIndexes(c[e]) } :
            e \in 1..Len(c) }

PartitionInit ==
    /\ elements_1 \in Circuits
    /\ parameters \in ParamVectors
    /\ constants_1 \in SUBSET Keys1(elements_1)
    /\ constants_2 \in SUBSET Keys2(elements_1)
    /\ Cardinality(constants_1) + Cardinality(constants_2) <= MaxConst
    /\ p1 = <<>> /\ p2 = <<>> /\ index = 0
    /\ ei = 0 /\ j = 0
    /\ pc = "start"
    /\ src1 = <<>> /\ src2 = <<>>
    /\ RegistryOff /\ CallOff /\ LadderOff /\ DiffOff /\ DataOff /\ FitOff /\ StackOff

PartitionNext ==
    \/ EarlyReturn
    \/ Begin
    \/ SkipConstant
    \/ Consume
    \/ RaiseIndexError
    \/ Return

SpecPartition == PartitionInit /\ [][PartitionNext]_vars

-----------------------------------------------------------------------------
(* Properties of individual_parameters *)

\* the positions of src whose entry comes from element e, in order
PositionsOf(src, e) ==
    SelectSeq([i \in 1..Len(src) |-> i], LAMBDA i : src[i].e = e)

\* the values / sub-indexes an output list received from element e, in order
ValuesFrom(p, src, e) ==
    LET ix == PositionsOf(src, e) IN [n \in 1..Len(ix) |-> p[ix[n]]]
SubsFrom(src, e) ==
    LET ix == PositionsOf(src, e) IN [n \in 1..Len(ix) |-> src[ix[n]].j]

\* the history variables describe the output lists
SourcesAgree ==
    /\ Len(src1) = Len(p1) /\ Len(src2) = Len(p2)
    /\ \A i \in 1..Len(p1) : p1[i] = parameters[src1[i].slot + 1]
    /\ \A i \in 1..Len(p2) : p2[i] = parameters[src2[i].slot + 1]

\* the sub-parameters of the circuit that no constants map holds
FreeSubParams ==
    { ek \in UNION { { <<e, k>> : k \in SubIndexes(elements_1[e]) } :
                     e \in 1..Len(elements_1) } :
        /\ eis_current_elem(elements_1[ek[1]], ek[2]) \notin constants_1
        /\ nleis_current_elem(elements_1[ek[1]], ek[2]) \notin constants_2 }

\* C1: at every point of the run the two lists together hold at least as
\* many values as slots were consumed, p1 holds no value of a sub-parameter
\* whose EIS name is a key of constants_1, and p2 holds no value of a
\* sub-parameter whose 2nd-NLEIS name is a key of constants_2.
C1_NoConstantInOutputs ==
    /\ SourcesAgree
    /\ Len(p1) + Len(p2) >= index
    /\ \A i \in 1..Len(src1) :
          eis_current_elem(elements_1[src1[i].e], src1[i].j) \notin constants_1
    /\ \A i \in 1..Len(src2) :
          nleis_current_elem(elements_1[src2[i].e], src2[i].j)
              \notin constants_2

C1_Witness ==
    /\ pc = "done"
    /\ constants_1 # {} /\ constants_2 # {}
    /\ p1 # <<>> /\ p2 # <<>>

\* C2: without constants, an element with EIS arity k_l > 1 gives p1 its
\* sub-parameters 0..k_l-1 in order; it gives p2 all its sub-parameters
\* 0..k_nl-1 in order when k_nl > k_l (the first k_l values being those it
\* gave p1), and nothing when k_nl = k_l.
C2_TwinSharing ==
    (pc = "done" /\ constants_1 = {} /\ constants_2 = {}) =>
        \A e \in 1..Len(elements_1) :
            LET kl == eis_elem_number(elements_1[e])
                knl == nleis_elem_number(elements_1[e])
                v1 == ValuesFrom(p1, src1, e)
                v2 == ValuesFrom(p2, src2, e)
            IN  kl > 1 =>
                  /\ SubsFrom(src1, e) = [n \in 1..kl |-> n - 1]
                  /\ \A n \in 1..kl : v1[n] = parameters[src1[PositionsOf(src1, e)[n]].slot + 1]
                  /\ IF knl > kl
                     THEN /\ SubsFrom(src2, e) = [n \in 1..knl |-> n - 1]
                          /\ SubSeq(v2, 1, kl) = v1
                     ELSE v2 = <<>>

C2_Witness ==
    /\ pc = "done" /\ constants_1 = {} /\ constants_2 = {}
    /\ \E e \in 1..Len(elements_1) :
          /\ eis_elem_number(elements_1[e]) > 1
          /\ nleis_elem_number(elements_1[e]) > eis_elem_number(elements_1[e])
    /\ \E e \in 1..Len(elements_1) :
          /\ eis_elem_number(elements_1[e]) > 1
          /\ nleis_elem_number(elements_1[e]) = eis_elem_number(elements_1[e])

\* the elements of the circuit with EIS arity 1 that no constants map names
FreeSingles ==
    { e \in 1..Len(elements_1) :
        /\ eis_elem_number(elements_1[e]) = 1
        /\ elements_1[e] \notin constants_1 \cup constants_2 }

\* C3 as stated: the single parameter of an element with EIS arity 1 that
\* is in neither constants map is delivered to p1 and to p2.
C3_AsStated ==
    pc = "done" =>
        \A e \in FreeSingles :
            /\ PositionsOf(src1, e) # <<>>
            /\ PositionsOf(src2, e) # <<>>

\* C3 amended: that parameter is delivered to p1 once, and never to p2.
C3_SingleGoesToP1Only ==
    pc = "done" =>
        \A e \in FreeSingles :
            /\ Len(PositionsOf(src1, e)) = 1
            /\ SourcesAgree
            /\ PositionsOf(src2, e) = <<>>

C3_Witness ==
    /\ pc = "done"
    /\ FreeSingles # {}
    /\ p2 # <<>>

\* a sub-parameter both evaluations use: to_p1 and to_p2 hold for it
Shared(e, k) == to_p1(elements_1[e], k) /\ to_p2(elements_1[e], k)

AllSubParams ==
    UNION { { <<e, k>> : k \in SubIndexes(elements_1[e]) } :
            e \in 1..Len(elements_1) }

HasOrigin(src, e, k) == \E i \in 1..Len(src) : src[i].e = e /\ src[i].j = k

\* C4 as stated: a shared sub-parameter that only constants_1 holds is kept
\* out of p1 and still appended to p2, and one that only constants_2 holds
\* is kept out of p2 and still appended to p1.
C4_AsStated ==
    pc = "done" =>
        \A ek \in AllSubParams :
            LET e == ek[1]
                k == ek[2]
                in1 == eis_current_elem(elements_1[e], k) \in constants_1
                in2 == nleis_current_elem(elements_1[e], k) \in constants_2
            IN  Shared(e, k) =>
                  /\ (in1 /\ ~in2) =>
                        ~HasOrigin(src1, e, k) /\ HasOrigin(src2, e, k)
                  /\ (in2 /\ ~in1) =>
                        ~HasOrigin(src2, e, k) /\ HasOrigin(src1, e, k)

\* C4 amended: a sub-parameter that either map holds (constants_1 under its
\* EIS name, constants_2 under its 2nd-NLEIS name) is skipped altogether: it
\* reaches neither list and takes no slot of the combined vector.
C4_ConstantSkippedInBoth ==
    /\ \A i \in 1..Len(src1) : <<src1[i].e, src1[i].j>> \in FreeSubParams
    /\ \A i \in 1..Len(src2) : <<src2[i].e, src2[i].j>> \in FreeSubParams
    /\ pc = "done" => index = Cardinality(FreeSubParams)

C4_Witness ==
    /\ pc = "done"
    /\ p2 # <<>>
    /\ \E ek \in AllSubParams :
          /\ Shared(ek[1], ek[2])
          /\ eis_current_elem(elements_1[ek[1]], ek[2]) \in constants_1
          /\ nleis_current_elem(elements_1[ek[1]], ek[2]) \notin constants_2

\* C5 as stated: the function never returns normally unless the combined
\* vector has exactly as many entries as slots were consumed.
C5_AsStated == pc = "done" => Len(parameters) = index

\* C5 amended: the call fails exactly when the vector is shorter than the
\* number of slots the circuit needs; a longer vector is accepted and its
\* surplus left unread.
C5_FailsOnlyWhenTooShort ==
    /\ pc = "done" =>
          /\ index = Cardinality(FreeSubParams)
          /\ index <= Len(parameters)
    /\ pc = "error" =>
          /\ Len(parameters) < Cardinality(FreeSubParams)
          /\ index = Len(parameters)

C5_Witness ==
    /\ pc = "done"
    /\ elements_1 # <<>>
    /\ index < Len(parameters)

\* the sub-parameters that the loops have passed: those before (e, k)
Passed(e, k) == { ek \in FreeSubParams : ek[1] < e \/ (ek[1] = e /\ ek[2] < k) }

\* the slots of an output list rise strictly
Rising(src) == \A a, b \in 1..Len(src) : a < b => src[a].slot < src[b].slot

\* C25: individual_parameters consumes the combined vector strictly from
\* left to right: the slot index starts at 0 and has risen by exactly one
\* for each sub-parameter passed that was not skipped as a constant; each
\* consumed slot was appended at most once to p1 and at most once to p2,
\* and to one of them at least; p1 and p2 each hold values of the combined
\* vector in its original order.
C25_LeftToRight ==
    pc \in {"loop", "done", "error"} /\ elements_1 # <<>> =>
        /\ index = Cardinality(Passed(ei, j))
        /\ index <= Len(parameters)
        /\ SourcesAgree
        /\ Rising(src1) /\ Rising(src2)
        /\ {src1[i].slot : i \in 1..Len(src1)} \cup {src2[i].slot : i \in 1..Len(src2)}
             = 0..(index - 1)

\* a run has ended after consuming four slots, one sub-parameter having
\* been skipped, with values in both lists and one of them in both
C25_Witness ==
    /\ pc = "done" /\ index = 4
    /\ Cardinality(constants_1) + Cardinality(constants_2) >= 1
    /\ Len(p1) >= 2 /\ Len(p2) >= 2
    /\ \E a \in 1..Len(p1), b \in 1..Len(p2) : p1[a] = p2[b]

-----------------------------------------------------------------------------
(* The registry circuit_elements and the element decorator *)

\* an object stored without metadata: the operators s, p (impedance.py) and d
Operator(name) == [func |-> <<name, "builtin">>, wrapped |-> FALSE,
                   num_params |-> 0]

\* the wrapper the decorator builds around func, carrying num_params
Wrapper(name, body, k) == [func |-> <<name, body>>, wrapped |-> TRUE,
                           num_params |-> k]

\* circuit_elements once the module is imported: s and p come with the
\* imported registry, d is stored by hand, the elements by their decorators
InitialRegistry ==
    [n \in {"s", "p", "d", "RCO", "RCOn"} |->
        CASE n = "RCO" -> Wrapper("RCO", "module", 2)
          [] n = "RCOn" -> Wrapper("RCOn", "module", 3)
          [] OTHER -> Operator(n)]

\* what a later registration may name, decorate and ask for
RegNames == {"s", "p", "d", "RCO", "RCOn", "Znew"}
Bodies == {"bodyA", "bodyB"}
Arities == {1, 2}

\* func.__name__ in ["s", "p"]
is_reserved(name) == name \in {"s", "p"}

\* mutant: an existing entry is never refused
refused_never(name, overwrite, registry) == FALSE

\* func.__name__ in circuit_elements and not overwrite
refused(name, overwrite, registry) ==
    name \in DOMAIN registry /\ ~overwrite

\* circuit_elements[func.__name__] = wrapper
store(registry, name, wrapper) ==
    [n \in DOMAIN registry \cup {name} |->
        IF n = name THEN wrapper ELSE registry[n]]

Request(name, body, k, overwrite) ==
    [name |-> name, body |-> body, num_params |-> k, overwrite |-> overwrite]

\* raise ElementError("cannot redefine elements 's' (series) or 'p' ...")
RegisterReserved ==
    \E name \in RegNames, body \in Bodies, k \in Arities, ow \in BOOLEAN :
        /\ raised # "off"
        /\ is_reserved(name)
        /\ req' = Request(name, body, k, ow)
        /\ raised' = "ElementError"
        /\ UNCHANGED circuit_elements
        /\ UNCHANGED notRegistry

\* raise OverwriteError(...)
RegisterRefused ==
    \E name \in RegNames, body \in Bodies, k \in Arities, ow \in BOOLEAN :
        /\ raised # "off"
        /\ ~is_reserved(name)
        /\ refused(name, ow, circuit_elements)
        /\ req' = Request(name, body, k, ow)
        /\ raised' = "OverwriteError"
        /\ UNCHANGED circuit_elements
        /\ UNCHANGED notRegistry

\* else: circuit_elements[func.__name__] = wrapper
RegisterStore ==
    \E name \in RegNames, body \in Bodies, k \in Arities, ow \in BOOLEAN :
        /\ raised # "off"
        /\ ~is_reserved(name)
        /\ ~refused(name, ow, circuit_elements)
        /\ req' = Request(name, body, k, ow)
        /\ raised' = "none"
        /\ circuit_elements' =
               store(circuit_elements, name, Wrapper(name, body, k))
        /\ UNCHANGED notRegistry

NoRequest == Request("", "", 0, FALSE)

RegistryInit ==
    /\ circuit_elements = InitialRegistry
    /\ req = NoRequest
    /\ raised = "none"
    /\ PartitionOff /\ CallOff /\ LadderOff /\ DiffOff /\ DataOff /\ FitOff /\ StackOff

RegistryNext ==
    \/ RegisterReserved
    \/ RegisterRefused
    \/ RegisterStore

SpecRegistry == RegistryInit /\ [][RegistryNext]_vars

\* what the three outcomes of a registration look like, from one state of the
\* registry to the next
Refuses(error) ==
    /\ raised' = error
    /\ circuit_elements' = circuit_elements

Stores ==
    /\ raised' = "none"
    /\ DOMAIN circuit_elements' = DOMAIN circuit_elements \cup {req'.name}
    /\ circuit_elements'[req'.name] =
           Wrapper(req'.name, req'.body, req'.num_params)
    /\ \A n \in DOMAIN circuit_elements :
           n # req'.name => circuit_elements'[n] = circuit_elements[n]

\* C6 as stated: whatever the name, a registration of an existing name
\* without overwrite raises OverwriteError and changes nothing, one with
\* overwrite replaces the entry, and a new name is added.
C6_AsStated ==
    [][ IF req'.name \in DOMAIN circuit_elements
        THEN IF req'.overwrite THEN Stores ELSE Refuses("OverwriteError")
        ELSE Stores ]_rvars

\* C6 amended: this holds of every name but the reserved s and p, whose
\* registration raises ElementError and changes nothing whatever overwrite is.
C6_RegistrationOutcome ==
    [][ IF req'.name \in {"s", "p"}
        THEN Refuses("ElementError")
        ELSE IF req'.name \in DOMAIN circuit_elements
             THEN IF req'.overwrite THEN Stores
                                    ELSE Refuses("OverwriteError")
             ELSE Stores ]_rvars

\* an element was replaced with overwrite=True, a new name was added, and a
\* registration without overwrite has just been refused
C6_Witness ==
    /\ raised = "OverwriteError"
    /\ req.name = "RCO"
    /\ circuit_elements["RCO"] # InitialRegistry["RCO"]
    /\ "Znew" \in DOMAIN circuit_elements

\* C7: whatever is registered, with or without overwrite, the registry
\* entries of the composition operators s, p and d stay the ones installed
\* at import.
C7_OperatorsKept ==
    raised # "off" =>
        \A n \in {"s", "p", "d"} : circuit_elements[n] = InitialRegistry[n]

-----------------------------------------------------------------------------
(* A call of a registered element: wrapper and typeChecker *)

\* the types of the values a caller puts in p and f
Types == {"float", "bool", "str"}

\* isinstance(i, (float, int, np.int32, np.float64)): bool is a subclass of
\* int, so a bool passes
accepted_any(t) == TRUE
accepted(t) == t \in {"float", "int", "np.int32", "np.float64", "bool"}

MaxPLen == 3
MaxFLen == 2

NotAList == [is_list |-> FALSE, items |-> <<>>]
AList(items) == [is_list |-> TRUE, items |-> items]

\* assert isinstance(p, list)
AssertIsList ==
    /\ cpc = "assert_list"
    /\ IF call_p.is_list THEN cpc' = "for_p" /\ ci' = 1
                         ELSE cpc' = "failed" /\ ci' = ci
    /\ UNCHANGED <<call_p, call_f, length, invoked>>
    /\ UNCHANGED notCall

\* for i in p: assert isinstance(i, (float, int, np.int32, np.float64))
ForP ==
    /\ cpc = "for_p"
    /\ IF ci > Len(call_p.items) THEN cpc' = "for_f" /\ ci' = 1
       ELSE IF accepted(call_p.items[ci]) THEN cpc' = cpc /\ ci' = ci + 1
       ELSE cpc' = "failed" /\ ci' = ci
    /\ UNCHANGED <<call_p, call_f, length, invoked>>
    /\ UNCHANGED notCall

\* for i in f: assert isinstance(i, (float, int, np.int32, np.float64))
ForF ==
    /\ cpc = "for_f"
    /\ IF ci > Len(call_f) THEN cpc' = "assert_len" /\ ci' = 0
       ELSE IF accepted(call_f[ci]) THEN cpc' = cpc /\ ci' = ci + 1
       ELSE cpc' = "failed" /\ ci' = ci
    /\ UNCHANGED <<call_p, call_f, length, invoked>>
    /\ UNCHANGED notCall

\* assert len(p) == length
AssertLen ==
    /\ cpc = "assert_len"
    /\ cpc' = IF Len(call_p.items) = length THEN "call_func" ELSE "failed"
    /\ UNCHANGED <<call_p, call_f, length, ci, invoked>>
    /\ UNCHANGED notCall

\* return func(p, f)
CallFunc ==
    /\ cpc = "call_func"
    /\ invoked' = TRUE
    /\ cpc' = "returned"
    /\ UNCHANGED <<call_p, call_f, length, ci>>
    /\ UNCHANGED notCall

\* wrapper(p, f) of an element registered with num_params 2 (RCO) or 3 (RCOn)
CallInit ==
    /\ call_p \in {NotAList} \cup
                  {AList(s) : s \in SeqsUpTo(Types, MaxPLen)}
    /\ call_f \in SeqsUpTo(Types, MaxFLen)
    /\ length \in {InitialRegistry[n].num_params : n \in {"RCO", "RCOn"}}
    /\ cpc = "assert_list"
    /\ ci = 0
    /\ invoked = FALSE
    /\ PartitionOff /\ RegistryOff /\ LadderOff /\ DiffOff /\ DataOff /\ FitOff /\ StackOff

CallNext ==
    \/ AssertIsList
    \/ ForP
    \/ ForF
    \/ AssertLen
    \/ CallFunc

SpecCall == CallInit /\ [][CallNext]_vars

\* a value that is a number: of the types of the model, all but str
Numeric(t) == t \in {"float", "int", "np.int32", "np.float64", "np.int64",
                     "bool", "complex"}

BadCall ==
    \/ ~call_p.is_list
    \/ Len(call_p.items) # length
    \/ \E i \in 1..Len(call_p.items) : ~Numeric(call_p.items[i])
    \/ \E i \in 1..Len(call_f) : ~Numeric(call_f[i])

\* C8: a call whose p is no list, or of the wrong length, or whose p or f
\* holds a value that is no number, fails without the element's function
\* having been invoked; the function is invoked only once typeChecker has
\* returned.
C8_ChecksBeforeEvaluation ==
    /\ cpc # "off" /\ BadCall => ~invoked /\ cpc \notin {"call_func", "returned"}
    /\ invoked => cpc = "returned"
    /\ cpc = "failed" => ~invoked

\* the last check of typeChecker, the length, has failed
C8_Witness ==
    /\ cpc = "failed"
    /\ call_p.is_list
    /\ Len(call_p.items) # length
    /\ \A i \in 1..Len(call_p.items) : Numeric(call_p.items[i])
    /\ call_f # <<>>
    /\ \A i \in 1..Len(call_f) : Numeric(call_f[i])

-----------------------------------------------------------------------------
(* Exact arithmetic for the ladder elements.  An impedance at one frequency *)
(* point is a rational <<numerator, denominator>> in lowest terms with a    *)
(* positive denominator; numpy applies every operation of the ladder        *)
(* elements point by point, and the model follows one point.                *)

Abs(x) == IF x < 0 THEN -x ELSE x

RECURSIVE Gcd(_, _)
Gcd(a, b) == IF b = 0 THEN a ELSE Gcd(b, a % b)

Rat(n, d) ==
    LET g == Gcd(Abs(n), Abs(d))
        sgn == IF d < 0 THEN -1 ELSE 1
    IN  <<(sgn * n) \div g, (sgn * d) \div g>>

Zero == <<0, 1>>
One == <<1, 1>>
FromInt(k) == <<k, 1>>

\* the sum over the least common denominator, and the product after
\* cancelling across, keep the intermediate integers small
RAdd(x, y) ==
    LET gd == Gcd(x[2], y[2])
    IN  Rat(x[1] * (y[2] \div gd) + y[1] * (x[2] \div gd), (x[2] \div gd) * y[2])
RNeg(x) == <<-x[1], x[2]>>
RSub(x, y) == RAdd(x, RNeg(y))
RMul(x, y) ==
    LET g1 == Gcd(Abs(x[1]), y[2])
        g2 == Gcd(Abs(y[1]), x[2])
    IN  Rat((x[1] \div g1) * (y[1] \div g2), (x[2] \div g2) * (y[2] \div g1))
RInv(x) == Rat(x[2], x[1])
RDiv(x, y) == RMul(x, RInv(y))
RSq(x) == RMul(x, x)

\* int(x): truncation toward zero
int(x) == IF x[1] >= 0 THEN x[1] \div x[2] ELSE -((-x[1]) \div x[2])

\* a matrix is a sequence of rows, a row a sequence of rationals
Dim(M) == Len(M)

\* a vector with its entries evaluated once, where a function constructor
\* alone would evaluate an entry anew at every use
Vector(q) == q \o <<>>

DropAt(q, k) ==
    Vector([i \in 1..(Len(q) - 1) |-> IF i < k THEN q[i] ELSE q[i + 1]])

Minor(M, c) == Vector([r \in 1..(Dim(M) - 1) |-> DropAt(M[r + 1], c)])

RECURSIVE Det(_)
RECURSIVE DetSum(_, _)
Det(M) == IF Dim(M) = 0 THEN One ELSE DetSum(M, Dim(M))
DetSum(M, c) ==
    IF c = 0 THEN Zero
    ELSE LET term == RMul(M[1][c], Det(Minor(M, c)))
         IN  RAdd(DetSum(M, c - 1),
                  IF c % 2 = 1 THEN term ELSE RNeg(term))

ReplaceColumn(M, c, v) ==
    Vector([r \in 1..Dim(M) |->
              Vector([k \in 1..Dim(M) |-> IF k = c THEN v[r] ELSE M[r][k]])])

LinAlgError == "LinAlgError"

singular(M) == Det(M) = Zero

\* np.linalg.solve(M, v): the solution of M x = v, or LinAlgError when M is
\* singular
solve(M, v) ==
    IF singular(M) THEN LinAlgError
    ELSE Vector([c \in 1..Dim(M) |-> RDiv(Det(ReplaceColumn(M, c, v)), Det(M))])

-----------------------------------------------------------------------------
(* The ladder elements TLM, TLMS, TLMD and their second-harmonic pairs      *)
(* TLMn, TLMSn, TLMDn.  The elementary elements they call (RCO, RCS, RCD    *)
(* and the n variants) are functions of their arguments and the frequency:  *)
(* the model keeps the value each call returned in memo, so that the same   *)
(* call returns the same value again, and leaves the value itself open.     *)

MaxN == 3

LinearFns == {"TLM", "TLMS", "TLMD"}
SecondHarmonicFns == {"TLMn", "TLMSn", "TLMDn"}
LadderFns == LinearFns \cup SecondHarmonicFns
\* the second-harmonic current distributions, whose code is that of TLMSn
\* and TLMDn up to the general case
DistributionFns == {"mTiSn", "mTiDn"}

\* the values an elementary element may return: a first-harmonic impedance
\* of a passive element is positive here, a second-harmonic one has a sign
LinVals == {<<1, 1>>, <<1, 2>>}
NlVals == {<<1, 1>>, <<-2, 1>>}
ValsOf(elem) == IF elem \in {"RCOn", "RCSn", "RCDn"} THEN NlVals ELSE LinVals

\* p[k] of the source, which counts from 0
P(p, k) == p[k + 1]
\* p[a:b]
Slice(p, a, b) == [i \in 1..(b - a) |-> p[a + i]]

is_TLM(fn) == fn \in {"TLM", "TLMn"}
N_index(fn) == IF is_TLM(fn) THEN 5 ELSE 7
num_params_ladder(fn) ==
    CASE fn = "TLM" -> 6 [] fn = "TLMn" -> 8
      [] fn \in {"TLMS", "TLMD"} -> 8
      [] fn \in {"TLMSn", "TLMDn"} -> 11

bulk_elem(fn) ==
    CASE fn \in {"TLM", "TLMn"} -> "RCO"
      [] fn \in {"TLMS", "TLMSn", "mTiSn"} -> "RCS"
      [] fn \in {"TLMD", "TLMDn", "mTiDn"} -> "RCD"
bulk_elem_n(fn) ==
    CASE fn = "TLMn" -> "RCOn"
      [] fn \in {"TLMSn", "mTiSn"} -> "RCSn"
      [] fn \in {"TLMDn", "mTiDn"} -> "RCDn"

\* [Rct, Cdl] or [Rct, Cdl, Aw, td] after the scaling with N
bulk_args(fn, p, n) ==
    IF is_TLM(fn)
    THEN <<RMul(P(p, 1), FromInt(n)), RDiv(P(p, 2), FromInt(n))>>
    ELSE <<RMul(P(p, 1), FromInt(n)), RDiv(P(p, 2), FromInt(n)),
           RMul(P(p, 3), FromInt(n)), P(p, 4)>>
\* [Rs, Cs]
surface_args(fn, p, n) ==
    IF is_TLM(fn)
    THEN <<RMul(P(p, 3), FromInt(n)), RDiv(P(p, 4), FromInt(n))>>
    ELSE <<RMul(P(p, 5), FromInt(n)), RDiv(P(p, 6), FromInt(n))>>
\* [Rct, Cdl, eb] or [Rct, Cdl, Aw, td, kappa, eb]
bulk_args_n(fn, p, n) ==
    IF is_TLM(fn) THEN bulk_args(fn, p, n) \o <<P(p, 6)>>
    ELSE bulk_args(fn, p, n) \o <<P(p, 8), P(p, 9)>>
\* [Rs, Cs, es]
surface_args_n(fn, p, n) ==
    IF is_TLM(fn) THEN surface_args(fn, p, n) \o <<P(p, 7)>>
    ELSE surface_args(fn, p, n) \o <<P(p, 10)>>

\* one call of an elementary element: its name, its arguments, and the
\* multiple of the frequencies it is evaluated at
Z1b_call(fn, p, n) == <<bulk_elem(fn), bulk_args(fn, p, n), 1>>
Z1s_call(fn, p, n) == <<"RCO", surface_args(fn, p, n), 1>>
Z2b_call(fn, p, n) == <<bulk_elem_n(fn), bulk_args_n(fn, p, n), 1>>
Z2s_call(fn, p, n) == <<"RCOn", surface_args_n(fn, p, n), 1>>
Z1b2t_call(fn, p, n) == <<bulk_elem(fn), bulk_args(fn, p, n), 2>>
Z1s2t_call(fn, p, n) == <<"RCO", surface_args(fn, p, n), 2>>

\* the memo after the calls have been made: calls made before keep their
\* value, new ones get any value their element may return
Evaluated(m, calls) ==
    LET new == calls \ DOMAIN m
    IN  { m @@ c : c \in { ch \in [new -> LinVals \cup NlVals] :
                             \A k \in new : ch[k] \in ValsOf(k[1]) } }

\* one pass of the loop body: Req_inv = (1/(Req+Rpore))+1/Zran; Req = 1/Req_inv
ladder_update(r, rp, zran) == RInv(RAdd(RInv(RAdd(r, rp)), RInv(zran)))

loop_continues_inclusive(i, n) == i <= n
\* for i in range(1, N)
loop_continues(i, n) == i < n

RECURSIVE ladder_loop(_, _, _, _, _)
ladder_loop(r, rp, zran, i, n) ==
    IF loop_continues(i, n)
    THEN ladder_loop(ladder_update(r, rp, zran), rp, zran, i + 1, n)
    ELSE r

\* TLM, TLMS, TLMD up to the loop
TLM_Enter ==
    /\ lpc = "entry" /\ lfn \in LinearFns
    /\ int(P(lp, N_index(lfn))) # 0
    /\ LET n == int(P(lp, N_index(lfn)))
       IN  \E m \in Evaluated(memo, {Z1b_call(lfn, lp, n), Z1s_call(lfn, lp, n)}) :
             /\ N' = n
             /\ Rpore' = RDiv(P(lp, 0), FromInt(n))
             /\ memo' = m
             /\ Zran' = RAdd(m[Z1b_call(lfn, lp, n)], m[Z1s_call(lfn, lp, n)])
             /\ Req' = Zran'
             /\ li' = 1
             /\ lpc' = "loop"
    /\ UNCHANGED <<lfn, lp, updates, I1, Z1, Z2, Z12t, result>>
    /\ UNCHANGED notLadder

TLM_Update ==
    /\ lpc = "loop" /\ loop_continues(li, N)
    /\ Req' = ladder_update(Req, Rpore, Zran)
    /\ li' = li + 1
    /\ updates' = updates + 1
    /\ UNCHANGED <<lfn, lp, memo, lpc, N, Rpore, Zran, I1, Z1, Z2, Z12t, result>>
    /\ UNCHANGED notLadder

TLM_Return ==
    /\ lpc = "loop" /\ ~loop_continues(li, N)
    /\ result' = Req
    /\ lpc' = "done"
    /\ UNCHANGED <<lfn, lp, memo, N, Rpore, Zran, Req, li, updates, I1, Z1, Z2, Z12t>>
    /\ UNCHANGED notLadder

\* mTi, mTiS, mTiD after the elementary elements have been evaluated: the
\* current fractions of the N segments, or LinAlgError
mTi_A_column_term(zran, rp, n) ==
    Vector([r \in 1..n |-> Vector([c \in 1..n |->
        LET i == r - 1
            k == c - 1
            A == IF k < i THEN RMul(FromInt(-(i - k)), rp)
                 ELSE IF k = i THEN zran ELSE Zero
            A1 == RMul(rp, FromInt(k + 1))
        IN  RAdd(A, A1)])])

\* A = np.identity(N)*Zran[freq]; A[i][j] = -(i-j)*Rpore for j < i;
\* A1[i, :] = Rpore*(i+1); A = A+A1
mTi_A(zran, rp, n) ==
    Vector([r \in 1..n |-> Vector([c \in 1..n |->
        LET i == r - 1
            k == c - 1
            A == IF k < i THEN RMul(FromInt(-(i - k)), rp)
                 ELSE IF k = i THEN zran ELSE Zero
            A1 == RMul(rp, FromInt(i + 1))
        IN  RAdd(A, A1)])])

mTi_b_whole_pore(zran, rp, n) ==
    Vector([r \in 1..n |-> RAdd(ladder_loop(zran, rp, zran, 1, n), RMul(rp, FromInt(n)))])

mTi_b_without_Rpore(zran, rp, n) ==
    Vector([r \in 1..n |-> ladder_loop(zran, rp, zran, 1, n)])

\* Req = Req+Rpore; b1 = np.ones(N)*Req
mTi_b(zran, rp, n) ==
    Vector([r \in 1..n |-> RAdd(ladder_loop(zran, rp, zran, 1, n), rp)])

mTi(zran, rp, n) == solve(mTi_A(zran, rp, n), mTi_b(zran, rp, n))

\* TLMn, TLMSn, TLMDn, first line: I1 = mTi(p[0:6], f), which evaluates the
\* first-harmonic elements itself
TLMn_CallmTi ==
    /\ lpc = "entry" /\ lfn \in SecondHarmonicFns \cup DistributionFns
    /\ int(P(lp, N_index(lfn))) >= 1
    /\ LET q == Slice(lp, 0, N_index(lfn) + 1)
           n == int(P(q, N_index(lfn)))
           rp == RDiv(P(q, 0), FromInt(n))
       IN  \E m \in Evaluated(memo, {Z1b_call(lfn, q, n), Z1s_call(lfn, q, n)}) :
             LET zran == RAdd(m[Z1b_call(lfn, q, n)], m[Z1s_call(lfn, q, n)])
             IN  /\ memo' = m
                 /\ IF singular(mTi_A(zran, rp, n))
                    THEN I1' = <<>> /\ lpc' = "LinAlgError"
                    ELSE I1' = mTi(zran, rp, n) /\ lpc' = "body"
    /\ UNCHANGED <<lfn, lp, N, Rpore, Zran, Req, li, updates, Z1, Z2, Z12t, result>>
    /\ UNCHANGED notLadder

unit_Z2_bulk_only(z2b, z2s) == z2b
\* Z2 = Z2b+Z2s
unit_Z2(z2b, z2s) == RAdd(z2b, z2s)

\* ... up to the tests on N
TLMn_Body ==
    /\ lpc = "body"
    /\ LET n == int(P(lp, N_index(lfn)))
           calls == {Z1b_call(lfn, lp, n), Z1s_call(lfn, lp, n),
                     Z2b_call(lfn, lp, n), Z2s_call(lfn, lp, n),
                     Z1b2t_call(lfn, lp, n), Z1s2t_call(lfn, lp, n)}
       IN  \E m \in Evaluated(memo, calls) :
             /\ N' = n
             /\ Rpore' = RDiv(P(lp, 0), FromInt(n))
             /\ memo' = m
             /\ Z1' = RAdd(m[Z1b_call(lfn, lp, n)], m[Z1s_call(lfn, lp, n)])
             /\ Z2' = unit_Z2(m[Z2b_call(lfn, lp, n)], m[Z2s_call(lfn, lp, n)])
             /\ Z12t' = RAdd(m[Z1b2t_call(lfn, lp, n)], m[Z1s2t_call(lfn, lp, n)])
             /\ lpc' = "branch"
    /\ UNCHANGED <<lfn, lp, Zran, Req, li, updates, I1, result>>
    /\ UNCHANGED notLadder

\* if N == 1: return (Z2)
TLMn_ReturnSingle ==
    /\ lpc = "branch" /\ N = 1
    /\ result' = Z2
    /\ lpc' = "done"
    /\ UNCHANGED <<lfn, lp, memo, N, Rpore, Zran, Req, li, updates, I1, Z1, Z2, Z12t>>
    /\ UNCHANGED notLadder

Two == FromInt(2)

closed_form_linear_in_Rpore(z1, z12t, z2, rp) ==
    LET sum1 == RDiv(RSq(z1), RSq(RAdd(RMul(FromInt(2), z1), rp)))
        sum2 == RDiv(RMul(z12t, rp),
                     RMul(RAdd(RMul(FromInt(2), z12t), rp),
                          RAdd(RMul(FromInt(2), z1), rp)))
    IN  RMul(RAdd(sum1, sum2), z2)

\* sum1 = Z1**2/(2*Z1+Rpore)**2
\* sum2 = (Z12t*Rpore+Rpore**2)/((2*Z12t+Rpore)*(2*Z1+Rpore))
\* Z = (sum1+sum2)*Z2
closed_form(z1, z12t, z2, rp) ==
    LET sum1 == RDiv(RSq(z1), RSq(RAdd(RMul(Two, z1), rp)))
        sum2 == RDiv(RAdd(RMul(z12t, rp), RSq(rp)),
                     RMul(RAdd(RMul(Two, z12t), rp), RAdd(RMul(Two, z1), rp)))
    IN  RMul(RAdd(sum1, sum2), z2)

\* if N == 2: ... return (Z)
TLMn_ReturnPair ==
    /\ lpc = "branch" /\ N # 1 /\ N = 2
    /\ result' = closed_form(Z1, Z12t, Z2, Rpore)
    /\ lpc' = "done"
    /\ UNCHANGED <<lfn, lp, memo, N, Rpore, Zran, Req, li, updates, I1, Z1, Z2, Z12t>>
    /\ UNCHANGED notLadder

\* A1 after the given number of passes of the outer loop:
\* A1 = np.arange(N-1, 0, -1); for j in range(0, N-1-i): A1[j] = A1[j]-1
RECURSIVE A1_after(_, _)
A1_after(n, passes) ==
    IF passes = 0 THEN [c \in 1..(n - 1) |-> n - c]
    ELSE LET prev == A1_after(n, passes - 1)
             i == passes - 1
         IN  [c \in 1..(n - 1) |-> IF c - 1 < n - 1 - i THEN prev[c] - 1 ELSE prev[c]]

\* A: the stacked rows times Rpore, with a column and a row of zeros appended
TLMn_A(rp, n) ==
    [r \in 1..n |-> [c \in 1..n |->
        IF r <= n - 1 /\ c <= n - 1
        THEN RMul(FromInt(A1_after(n, r - 1)[c]), rp) ELSE Zero]]

TLMn_A2_next_column(z12t, n) ==
    [r \in 1..n |-> [c \in 1..n |->
        IF r <= n - 1
        THEN LET i == r - 1
             IN  RMul(FromInt((IF c - 1 = 0 THEN 1 ELSE 0)
                              - (IF c - 1 = i + 1 THEN 1 ELSE 0)), z12t)
        ELSE Zero]]

\* A2: A2[i, 0] += 1; A2[i, N-1-i] -= 1; a row of zeros; times Z12t
TLMn_A2(z12t, n) ==
    [r \in 1..n |-> [c \in 1..n |->
        IF r <= n - 1
        THEN LET i == r - 1
             IN  RMul(FromInt((IF c - 1 = 0 THEN 1 ELSE 0)
                              - (IF c - 1 = n - 1 - i THEN 1 ELSE 0)), z12t)
        ELSE Zero]]

\* A3: zeros with a last row of ones
TLMn_A3(n) == [r \in 1..n |-> [c \in 1..n |-> IF r = n THEN One ELSE Zero]]

\* Ax = A2+A+A3
TLMn_Ax(z12t, rp, n) ==
    Vector([r \in 1..n |-> Vector([c \in 1..n |->
        RAdd(RAdd(TLMn_A2(z12t, n)[r][c], TLMn_A(rp, n)[r][c]), TLMn_A3(n)[r][c])])])

\* b[i] = Ii[-1]**2-Ii[i]**2 for i < N-1, the last entry stays 0
TLMn_b(Ii, n) ==
    Vector([r \in 1..n |->
              IF r <= n - 1 THEN RSub(RSq(Ii[Len(Ii)]), RSq(Ii[r])) ELSE Zero])

\* -b*Z2[freq]
TLMn_rhs(Ii, z2, n) == Vector([r \in 1..n |-> RMul(RNeg(TLMn_b(Ii, n)[r]), z2)])

\* the general case: I2 = solve(Ax, -b*Z2); Z = Z2*Ii[0]**2+I2[-1]*Z12t
TLMn_General ==
    /\ lpc = "branch" /\ N # 1 /\ N # 2
    /\ lfn \in SecondHarmonicFns
    /\ IF singular(TLMn_Ax(Z12t, Rpore, N))
       THEN result' = <<>> /\ lpc' = "LinAlgError"
       ELSE LET I2 == solve(TLMn_Ax(Z12t, Rpore, N), TLMn_rhs(I1, Z2, N))
            IN  /\ result' = RAdd(RMul(Z2, RSq(I1[1])), RMul(I2[Len(I2)], Z12t))
                /\ lpc' = "done"
    /\ UNCHANGED <<lfn, lp, memo, N, Rpore, Zran, Req, li, updates, I1, Z1, Z2, Z12t>>
    /\ UNCHANGED notLadder

\* the parameter lists of the calls: the pore resistance and the bulk
\* resistance vary, and p[N] is a number from 1 on, whole or not.  The
\* second-harmonic elements are called with the values that lead into each
\* of the three branches of their code.
PoreVals == {FromInt(1), FromInt(2)}
RctVals == {FromInt(1), FromInt(2)}
NVals(fn) ==
    IF fn \in LinearFns
    THEN {FromInt(k) : k \in 1..MaxN} \cup {<<2 * k + 1, 2>> : k \in 1..(MaxN - 1)}
    ELSE {<<1, 1>>, <<3, 2>>, <<2, 1>>, <<5, 2>>, <<3, 1>>}
Epsilon == <<1, 10>>

ParamListsOver(fn, ns) ==
    { IF is_TLM(fn)
      THEN <<p0, rct, One, One, One, n>>
           \o (IF fn = "TLMn" THEN <<Epsilon, Epsilon>> ELSE <<>>)
      ELSE <<p0, rct, One, One, One, One, One, n>>
           \o (IF fn \in SecondHarmonicFns \cup DistributionFns
               THEN <<One, Epsilon, Epsilon>> ELSE <<>>)
      : p0 \in PoreVals, rct \in RctVals, n \in ns }
ParamLists(fn) == ParamListsOver(fn, NVals(fn))

LadderInit ==
    /\ lfn \in LadderFns
    /\ lp \in ParamLists(lfn)
    /\ memo = <<>>
    /\ lpc = "entry"
    /\ N = 0 /\ Rpore = <<>> /\ Zran = <<>> /\ Req = <<>> /\ li = 0
    /\ updates = 0 /\ I1 = <<>> /\ Z1 = <<>> /\ Z2 = <<>> /\ Z12t = <<>>
    /\ result = <<>>
    /\ PartitionOff /\ RegistryOff /\ CallOff /\ DiffOff /\ DataOff /\ FitOff /\ StackOff

LadderNext ==
    \/ TLM_Enter
    \/ TLM_Update
    \/ TLM_Return
    \/ TLMn_CallmTi
    \/ TLMn_Body
    \/ TLMn_ReturnSingle
    \/ TLMn_ReturnPair
    \/ TLMn_General

SpecLadder == LadderInit /\ [][LadderNext]_vars

\* the unit impedance Zu of the call: Z1b + Z1s as the elements returned them
Zu == LET n == int(P(lp, N_index(lfn)))
      IN  RAdd(memo[Z1b_call(lfn, lp, n)], memo[Z1s_call(lfn, lp, n)])

\* Req after k updates, from the definition of the recursion
RECURSIVE Reduced(_, _, _)
Reduced(zu, rp, k) ==
    IF k = 0 THEN zu
    ELSE LET prev == Reduced(zu, rp, k - 1)
         IN  RDiv(One, RAdd(RDiv(One, RAdd(prev, rp)), RDiv(One, zu)))

\* C9: TLM, TLMS and TLMD start from Req = Zu, perform exactly N-1 updates
\* Req := 1/(1/(Req+Rp) + 1/Zu) and return; with N = 1 no update is made and
\* the result is Zu itself, whatever Rp is.
C9_LadderReducer ==
    /\ lfn \in LinearFns /\ lpc = "loop" =>
         /\ updates = li - 1 /\ updates <= N - 1
         /\ Req = Reduced(Zu, Rpore, updates)
    /\ lfn \in LinearFns /\ lpc = "done" =>
         /\ updates = N - 1
         /\ result = Reduced(Zu, Rpore, N - 1)
         /\ N = 1 => updates = 0 /\ result = Zu

\* a call with N = 3 has returned after its two updates, and the pore
\* resistance has made the result differ from Zu
C9_Witness ==
    /\ lfn \in LinearFns /\ lpc = "done"
    /\ N = 3 /\ updates = 2 /\ result # Zu

\* C10: TLMn, TLMSn and TLMDn with N = 1 return Z2 = Z2b + Z2s as the two
\* elements gave it, independent of the pore resistance and of the current
\* fractions I1.
C10_SingleSegmentReturnsZ2 ==
    lfn \in SecondHarmonicFns /\ lpc = "done" /\ N = 1 =>
        LET n == int(P(lp, N_index(lfn)))
        IN  result = RAdd(memo[Z2b_call(lfn, lp, n)], memo[Z2s_call(lfn, lp, n)])

\* a call with p[N] = 3/2, hence N = 1, has returned, its two
\* second-harmonic elements having given different values
C10_Witness ==
    /\ lfn \in SecondHarmonicFns /\ lpc = "done" /\ N = 1
    /\ P(lp, N_index(lfn)) = <<3, 2>>
    /\ P(lp, 0) = FromInt(2)
    /\ LET n == int(P(lp, N_index(lfn)))
       IN  memo[Z2b_call(lfn, lp, n)] # memo[Z2s_call(lfn, lp, n)]

\* C11: with N = 2 the closed form the element returns equals what the
\* general construction gives when it is specialised to N = 2:
\* Z2*I1[0]^2 + I2[1]*Z12t, where I1 is what mTi returned and I2 solves
\* Ax*I2 = -b*Z2 with Ax = [[Rp+Z12t, -Z12t], [1, 1]] and
\* b = [I1[1]^2 - I1[0]^2, 0].
C11_ClosedFormAgrees ==
    lfn \in SecondHarmonicFns /\ lpc = "done" /\ N = 2 =>
        LET Ax == << <<RAdd(Rpore, Z12t), RNeg(Z12t)>>, <<One, One>> >>
            b == <<RSub(RSq(I1[2]), RSq(I1[1])), Zero>>
            rhs == <<RMul(RNeg(b[1]), Z2), RMul(RNeg(b[2]), Z2)>>
        IN  /\ TLMn_Ax(Z12t, Rpore, 2) = Ax
            /\ TLMn_b(I1, 2) = b
            /\ ~singular(Ax)
            /\ result = RAdd(RMul(Z2, RSq(I1[1])), RMul(solve(Ax, rhs)[2], Z12t))

\* a call with N = 2 has returned, with a unit impedance that differs
\* between the frequencies and twice the frequencies and a negative Z2
C11_Witness ==
    /\ lfn \in SecondHarmonicFns /\ lpc = "done" /\ N = 2
    /\ Z1 # Z12t /\ Z2[1] < 0 /\ Rpore # One

\* the sum of the entries of a vector
RECURSIVE Total(_)
Total(v) == IF v = <<>> THEN Zero ELSE RAdd(v[1], Total(Tail(v)))

\* C17: whenever the system is not singular, the current fractions that
\* mTi, mTiS and mTiD return are N in number and sum to 1, the total current
\* of the ladder; for N = 1 the single fraction is 1.
C17_FractionsSumToOne ==
    lfn \in SecondHarmonicFns /\ lpc \in {"body", "branch", "done"} =>
        LET n == int(P(lp, N_index(lfn)))
        IN  /\ Len(I1) = n
            /\ Total(I1) = One
            /\ (n = 1 => I1 = <<One>>)

\* the solver has returned three fractions, all different and all under 1
C17_Witness ==
    /\ lfn \in SecondHarmonicFns /\ lpc = "body"
    /\ Len(I1) = 3
    /\ I1[1] # I1[2] /\ I1[2] # I1[3]
    /\ \A i \in 1..3 : I1[i][1] < I1[i][2] /\ I1[i][1] > 0

Min(a, b) == IF a <= b THEN a ELSE b

\* the matrix and the right-hand side of the current-distribution system as
\* closed expressions, rows and columns counted from 0
KirchhoffMatrix(zu, rp, n) ==
    Vector([r \in 1..n |-> Vector([c \in 1..n |->
        RAdd(RMul(rp, FromInt(Min(r - 1, c - 1) + 1)), IF r = c THEN zu ELSE Zero)])])
KirchhoffRhs(zu, rp, n) == Vector([r \in 1..n |-> RAdd(Reduced(zu, rp, n - 1), rp)])

\* C18: the matrix that mTi, mTiS and mTiD assemble is
\* A[i][j] = Rp*(min(i,j)+1) + (Zu if i = j else 0) for 0 <= i, j < N with
\* Rp = p[0]/N, hence symmetric, every entry of the right-hand side is
\* Req + Rp with Req the reduced ladder impedance, and the fractions returned
\* solve that system.
C18_KirchhoffSystem ==
    lfn \in SecondHarmonicFns /\ lpc \in {"body", "branch", "done"} =>
        LET n == int(P(lp, N_index(lfn)))
            rp == RDiv(P(lp, 0), FromInt(n))
            A == mTi_A(Zu, rp, n)
        IN  /\ A = KirchhoffMatrix(Zu, rp, n)
            /\ \A r, c \in 1..n : A[r][c] = A[c][r]
            /\ mTi_b(Zu, rp, n) = KirchhoffRhs(Zu, rp, n)
            /\ I1 = solve(A, mTi_b(Zu, rp, n))

\* the solver has returned for N = 3 and a pore resistance of 2/3 per
\* segment, which the matrix has off its diagonal
C18_Witness ==
    /\ lfn \in SecondHarmonicFns /\ lpc = "branch"
    /\ N = 3 /\ Rpore = <<2, 3>> /\ Len(I1) = 3
    /\ mTi_A(Zu, Rpore, N)[3][2] = <<4, 3>>

Max(a, b) == IF a >= b THEN a ELSE b
Indicator(cond) == IF cond THEN 1 ELSE 0

\* the matrix and the right-hand side of the second-harmonic system as
\* closed expressions, rows k and columns col counted from 0
GeneralMatrix(z12t, rp, n) ==
    Vector([r \in 1..n |-> Vector([c \in 1..n |->
        LET k == r - 1
            col == c - 1
        IN  IF k <= n - 2
            THEN RAdd(RMul(rp, FromInt(Max(n - 1 - k - col, 0))),
                      RMul(z12t, FromInt(Indicator(col = 0) - Indicator(col = n - 1 - k))))
            ELSE One])])
GeneralRhs(Ii, z2, n) ==
    Vector([r \in 1..n |->
        IF r - 1 < n - 1
        THEN RNeg(RMul(z2, RSub(RSq(Ii[n]), RSq(Ii[r]))))
        ELSE Zero])

\* C19: in the general case N >= 3 of TLMn, TLMSn and TLMDn the solved
\* matrix is Ax[k][j] = Rp*max(N-1-k-j, 0) + Z12t*([j = 0] - [j = N-1-k]) for
\* the rows k = 0..N-2 and its row N-1 is all ones; the right-hand side is
\* -Z2*(I1[N-1]^2 - I1[k]^2) for the rows k < N-1 and 0 for the row N-1, so
\* the second-harmonic currents sum to zero; and the result is
\* Z2*I1[0]^2 + I2[N-1]*Z12t.  The matrix is compared for the sizes from 3 to
\* MaxN + 2 as well.
C19_GeneralSystem ==
    lfn \in SecondHarmonicFns /\ lpc = "done" /\ N >= 3 =>
        LET Ax == TLMn_Ax(Z12t, Rpore, N)
            rhs == TLMn_rhs(I1, Z2, N)
            I2 == solve(Ax, rhs)
        IN  /\ Ax = GeneralMatrix(Z12t, Rpore, N)
            /\ \A n \in 3..(MaxN + 2) :
                  TLMn_Ax(Z12t, Rpore, n) = GeneralMatrix(Z12t, Rpore, n)
            /\ rhs = GeneralRhs(I1, Z2, N)
            /\ Total(I2) = Zero
            /\ result = RAdd(RMul(Z2, RSq(I1[1])), RMul(I2[N], Z12t))

\* a call with N = 3 has returned from the general case, and the
\* second-harmonic current of the last segment has contributed to the result
C19_Witness ==
    /\ lfn \in SecondHarmonicFns /\ lpc = "done" /\ N = 3
    /\ Z1 # Z12t
    /\ result # RMul(Z2, RSq(I1[1]))

\* the second-harmonic element whose solver mTi, mTiS or mTiD goes with a
\* linear ladder element
PairOf(fn) == CASE fn = "TLM" -> "TLMn" [] fn = "TLMS" -> "TLMSn" [] fn = "TLMD" -> "TLMDn"

-----------------------------------------------------------------------------
(* The ladder elements called with a segment count that is not positive.    *)

NaN == <<0, 0>>

\* TLM, TLMS, TLMD with N = 0: Cdl = p[2]/N divides by zero.  For Python
\* floats that raises ZeroDivisionError; for numpy scalars it gives inf with
\* a warning, the elementary elements return nan, the loop makes no pass,
\* and nan is returned.
TLM_ZeroSegments ==
    /\ lpc = "entry" /\ lfn \in LinearFns
    /\ int(P(lp, N_index(lfn))) = 0
    /\ N' = 0
    /\ \/ lpc' = "ZeroDivisionError" /\ result' = result
       \/ lpc' = "done" /\ result' = NaN
    /\ UNCHANGED <<lfn, lp, memo, Rpore, Zran, Req, li, updates, I1, Z1, Z2, Z12t>>
    /\ UNCHANGED notLadder

\* TLMn, TLMSn, TLMDn with N <= 0, in their call of mTi, mTiS, mTiD: for
\* N < 0, I1 = np.zeros((len(frequencies), N)) raises ValueError; for N = 0,
\* Python floats raise ZeroDivisionError in Cdl = p[2]/N, and with numpy
\* scalars mTi returns rows of no entries and the caller raises ValueError
\* in np.zeros((N-1, 1)).
TLMn_NonPositiveSegments ==
    /\ lpc = "entry" /\ lfn \in SecondHarmonicFns
    /\ int(P(lp, N_index(lfn))) <= 0
    /\ N' = int(P(lp, N_index(lfn)))
    /\ \/ lpc' = "ValueError"
       \/ N' = 0 /\ lpc' = "ZeroDivisionError"
    /\ UNCHANGED <<lfn, lp, memo, Rpore, Zran, Req, li, updates, I1, Z1, Z2, Z12t, result>>
    /\ UNCHANGED notLadder

\* p[N] that int() takes to a segment count of 0 or less, besides the others
NonPositiveNVals == {<<-2, 1>>, <<-3, 2>>, <<0, 1>>, <<1, 2>>}

AnyCountInit ==
    /\ lfn \in LadderFns
    /\ lp \in ParamListsOver(lfn, NVals(lfn) \cup NonPositiveNVals)
    /\ memo = <<>>
    /\ lpc = "entry"
    /\ N = 0 /\ Rpore = <<>> /\ Zran = <<>> /\ Req = <<>> /\ li = 0
    /\ updates = 0 /\ I1 = <<>> /\ Z1 = <<>> /\ Z2 = <<>> /\ Z12t = <<>>
    /\ result = <<>>
    /\ PartitionOff /\ RegistryOff /\ CallOff /\ DiffOff /\ DataOff /\ FitOff /\ StackOff

AnyCountNext == LadderNext \/ TLM_ZeroSegments \/ TLMn_NonPositiveSegments

SpecAnyCount == AnyCountInit /\ [][AnyCountNext]_vars

\* C23: the ladder elements treat a segment count that is not positive as a
\* violated precondition: when int(N) <= 0 the call fails with an error and
\* returns nothing; a positive N that is not whole is truncated toward zero.
C23_NonPositiveCountFails ==
    /\ (lpc # "entry" /\ int(P(lp, N_index(lfn))) <= 0) => lpc # "done"
    /\ (lpc = "done" /\ P(lp, N_index(lfn))[1] > 0) =>
          /\ N <= P(lp, N_index(lfn))[1] \div P(lp, N_index(lfn))[2]
          /\ N + 1 > P(lp, N_index(lfn))[1] \div P(lp, N_index(lfn))[2]

-----------------------------------------------------------------------------
(* The second-harmonic current distributions mTiSn and mTiDn.               *)

\* x[::-1]
Reverse(x) == [i \in 1..Len(x) |-> x[Len(x) + 1 - i]]

\* mTiSn, the general case: I2[freq, :] = solve(Ax, -b*Z2).flatten()[::-1];
\* return (I2)
mTiSn_General ==
    /\ lpc = "branch" /\ N # 1 /\ N # 2
    /\ lfn = "mTiSn"
    /\ IF singular(TLMn_Ax(Z12t, Rpore, N))
       THEN result' = <<>> /\ lpc' = "LinAlgError"
       ELSE /\ result' = Reverse(solve(TLMn_Ax(Z12t, Rpore, N), TLMn_rhs(I1, Z2, N)))
            /\ lpc' = "done"
    /\ UNCHANGED <<lfn, lp, memo, N, Rpore, Zran, Req, li, updates, I1, Z1, Z2, Z12t>>
    /\ UNCHANGED notLadder

\* mTiDn, the general case: the same loop fills I2, and the function ends
\* with return (Z), a local that only the branch N == 2 assigns
mTiDn_General ==
    /\ lpc = "branch" /\ N # 1 /\ N # 2
    /\ lfn = "mTiDn"
    /\ IF singular(TLMn_Ax(Z12t, Rpore, N))
       THEN lpc' = "LinAlgError"
       ELSE lpc' = "UnboundLocalError"
    /\ UNCHANGED <<lfn, lp, memo, N, Rpore, Zran, Req, li, updates, I1, Z1, Z2, Z12t,
                   result>>
    /\ UNCHANGED notLadder

DistributionInit ==
    /\ lfn \in DistributionFns
    /\ lp \in ParamLists(lfn)
    /\ memo = <<>>
    /\ lpc = "entry"
    /\ N = 0 /\ Rpore = <<>> /\ Zran = <<>> /\ Req = <<>> /\ li = 0
    /\ updates = 0 /\ I1 = <<>> /\ Z1 = <<>> /\ Z2 = <<>> /\ Z12t = <<>>
    /\ result = <<>>
    /\ PartitionOff /\ RegistryOff /\ CallOff /\ DiffOff /\ DataOff /\ FitOff /\ StackOff

DistributionNext ==
    \/ TLMn_CallmTi
    \/ TLMn_Body
    \/ TLMn_ReturnSingle
    \/ TLMn_ReturnPair
    \/ mTiSn_General
    \/ mTiDn_General

SpecDistribution == DistributionInit /\ [][DistributionNext]_vars

\* C24: mTiDn with N >= 3 returns, as mTiSn does, the second-harmonic
\* current distribution: for a frequency the N entries of the solution of
\* the system, in reversed order.
C24_DistributionReturned ==
    (lfn \in DistributionFns /\ N >= 3
        /\ lpc \notin {"entry", "body", "branch", "LinAlgError"}) =>
        /\ lpc = "done"
        /\ Len(result) = N
        /\ result = Reverse(solve(TLMn_Ax(Z12t, Rpore, N), TLMn_rhs(I1, Z2, N)))

-----------------------------------------------------------------------------
(* The difference operator d.  A branch response is a numpy array of        *)
(* complex numbers, here a sequence of pairs <<real, imaginary>> of         *)
(* integers.                                                                *)

MaxBranches == 3
MaxBranchLen == 2

CVals == {<<1, -1>>, <<2, 1>>}
CZero == <<0, 0>>
CAdd(a, b) == <<a[1] + b[1], a[2] + b[2]>>
CNeg(a) == <<-a[1], -a[2]>>

\* -x for an array x
ArrayNeg(x) == [i \in 1..Len(x) |-> CNeg(x[i])]

\* whether numpy can add y to the array x in place: y has the shape of x or
\* a single entry, which is then added to every entry of x
broadcastable(x, y) == Len(y) = Len(x) \/ Len(y) = 1
\* x += y for an array x
ArrayIAdd(x, y) ==
    [i \in 1..Len(x) |-> CAdd(x[i], IF Len(y) = Len(x) THEN y[i] ELSE y[1])]

second_branch(branches) == IF Len(branches) > 1 THEN branches[2] ELSE branches[1]
\* difference[-1]
last_branch(branches) == branches[Len(branches)]

\* z = len(difference[0])*[0 + 0*1j]
d_Zeros ==
    /\ dpc = "start"
    /\ z' = [i \in 1..Len(difference[1]) |-> CZero]
    /\ dpc' = "zeros"
    /\ UNCHANGED difference
    /\ UNCHANGED notDiff

\* z += difference[0]: the list z and the array are added entry by entry
d_AddFirst ==
    /\ dpc = "zeros"
    /\ z' = ArrayIAdd(z, difference[1])
    /\ dpc' = "first_added"
    /\ UNCHANGED difference
    /\ UNCHANGED notDiff

\* z += -difference[-1]
d_SubtractLast ==
    /\ dpc = "first_added"
    /\ IF broadcastable(z, last_branch(difference))
       THEN /\ z' = ArrayIAdd(z, ArrayNeg(last_branch(difference)))
            /\ dpc' = "last_subtracted"
       ELSE /\ z' = z
            /\ dpc' = "ValueError"
    /\ UNCHANGED difference
    /\ UNCHANGED notDiff

\* return z
d_Return ==
    /\ dpc = "last_subtracted"
    /\ dpc' = "done"
    /\ UNCHANGED <<difference, z>>
    /\ UNCHANGED notDiff

Branches == UNION { [1..n -> CVals] : n \in 1..MaxBranchLen }

DiffInit ==
    /\ difference \in UNION { [1..n -> Branches] : n \in 1..MaxBranches }
    /\ z = <<>>
    /\ dpc = "start"
    /\ PartitionOff /\ RegistryOff /\ CallOff /\ LadderOff /\ DataOff /\ FitOff /\ StackOff

DiffNext == d_Zeros \/ d_AddFirst \/ d_SubtractLast \/ d_Return

SpecDiff == DiffInit /\ [][DiffNext]_vars

\* first minus last, entry by entry
Minus(a, b) == [i \in 1..Len(a) |-> <<a[i][1] - b[i][1], a[i][2] - b[i][2]>>]

\* C12: d returns, entry by entry, the first branch minus the last one, with
\* the length of the first branch; the branches between the two play no
\* part, a list of one branch gives zeros, and with first and last swapped
\* the result is the negated one.
C12_FirstMinusLast ==
    dpc = "done" =>
        LET first == difference[1]
            last == difference[Len(difference)]
        IN  /\ Len(z) = Len(first)
            /\ Len(last) = Len(first) =>
                 /\ z = Minus(first, last)
                 /\ Minus(last, first) = ArrayNeg(z)
            /\ Len(difference) = 1 => \A i \in 1..Len(z) : z[i] = CZero

\* d has returned for three branches of two points each, the middle one
\* differing from both the first and the last, and the result is not zero
C12_Witness ==
    /\ dpc = "done"
    /\ Len(difference) = 3
    /\ \A k \in 1..3 : Len(difference[k]) = 2
    /\ difference[2] # difference[1] /\ difference[2] # difference[3]
    /\ \E i \in 1..2 : z[i] # CZero

-----------------------------------------------------------------------------
(* data_processing.  A spectrum is a sequence of complex numbers            *)
(* <<real, imaginary>>, a frequency an integer.                             *)

MaxPoints == 3

\* x[mask] for a boolean array mask of the length of x
RECURSIVE BoolIndex(_, _)
BoolIndex(x, mask) ==
    IF x = <<>> THEN <<>>
    ELSE (IF Head(mask) THEN <<Head(x)>> ELSE <<>>)
         \o BoolIndex(Tail(x), Tail(mask))

imag(c) == c[2]

dp_mask_nonpositive(Z) == [i \in 1..Len(Z) |-> imag(Z[i]) <= 0]
\* mask = np.array(Z1.imag) < 0
dp_mask(Z) == [i \in 1..Len(Z) |-> imag(Z[i]) < 0]

dp_mask1_inclusive(fr, mx) == [i \in 1..Len(fr) |-> fr[i] <= mx]
\* mask1 = np.array(f) < max_f
dp_mask1(fr, mx) == [i \in 1..Len(fr) |-> fr[i] < mx]

\* lines 60-63: the points with a negative imaginary part of Z1
dp_RemoveInductive ==
    /\ dp_pc = "start"
    /\ dp_f' = BoolIndex(dp_f, dp_mask(dp_Z1))
    /\ dp_Z1' = BoolIndex(dp_Z1, dp_mask(dp_Z1))
    /\ dp_Z2' = BoolIndex(dp_Z2, dp_mask(dp_Z1))
    /\ dp_pc' = "filtered"
    /\ UNCHANGED <<dp_max_f, f2_truncated, Z2_truncated, in_f, in_Z1, in_Z2>>
    /\ UNCHANGED notData

\* lines 64-66: of these, the points below max_f
dp_Truncate ==
    /\ dp_pc = "filtered"
    /\ f2_truncated' = BoolIndex(dp_f, dp_mask1(dp_f, dp_max_f))
    /\ Z2_truncated' = BoolIndex(dp_Z2, dp_mask1(dp_f, dp_max_f))
    /\ dp_pc' = "truncated"
    /\ UNCHANGED <<dp_f, dp_Z1, dp_Z2, dp_max_f, in_f, in_Z1, in_Z2>>
    /\ UNCHANGED notData

\* return (f, Z1, Z2, f2_truncated, Z2_truncated)
dp_Return ==
    /\ dp_pc = "truncated"
    /\ dp_pc' = "done"
    /\ UNCHANGED <<dp_f, dp_Z1, dp_Z2, dp_max_f, f2_truncated, Z2_truncated,
                   in_f, in_Z1, in_Z2>>
    /\ UNCHANGED notData

\* the measured points: any frequencies, any sign of the imaginary part of
\* Z1; the real parts and Z2 tell the points apart
FreqVals == {1, 2, 3}
ImagVals == {-1, 0, 1}
MaxFVals == {2, 3}
Z2At(i) == <<100 + i, -i>>

DataInit ==
    /\ \E n \in 0..MaxPoints :
         /\ dp_f \in [1..n -> FreqVals]
         /\ \E ims \in [1..n -> ImagVals] : dp_Z1 = [i \in 1..n |-> <<i, ims[i]>>]
         /\ dp_Z2 = [i \in 1..n |-> Z2At(i)]
    /\ dp_max_f \in MaxFVals
    /\ in_f = dp_f /\ in_Z1 = dp_Z1 /\ in_Z2 = dp_Z2
    /\ f2_truncated = <<>> /\ Z2_truncated = <<>>
    /\ dp_pc = "start"
    /\ PartitionOff /\ RegistryOff /\ CallOff /\ LadderOff /\ DiffOff /\ FitOff /\ StackOff

DataNext == dp_RemoveInductive \/ dp_Truncate \/ dp_Return

SpecData == DataInit /\ [][DataNext]_vars

\* the k-th smallest member of a set of indices
Kth(S, k) == CHOOSE i \in S : Cardinality({m \in S : m <= i}) = k
\* the entries of x at the indices in S, in their order
Pick(x, S) == [k \in 1..Cardinality(S) |-> x[Kth(S, k)]]

Capacitive == {i \in 1..Len(in_Z1) : in_Z1[i][2] < 0}

\* C13: for f, Z1, Z2 of equal length the returned f, Z1 and Z2 are of
\* equal length and hold exactly the points with Im(Z1) < 0 in their
\* original order; f2_truncated and Z2_truncated are of equal length; and
\* every returned nonlinear frequency is strictly less than max_f.
C13_DataProcessing ==
    dp_pc = "done" =>
        /\ Len(dp_f) = Len(dp_Z1) /\ Len(dp_Z1) = Len(dp_Z2)
        /\ dp_f = Pick(in_f, Capacitive)
        /\ dp_Z1 = Pick(in_Z1, Capacitive)
        /\ dp_Z2 = Pick(in_Z2, Capacitive)
        /\ Len(f2_truncated) = Len(Z2_truncated)
        /\ \A i \in 1..Len(f2_truncated) : f2_truncated[i] < dp_max_f

\* data_processing has returned for three points of which the middle one is
\* inductive and removed, and one of the two others is at max_f or above
C13_Witness ==
    /\ dp_pc = "done"
    /\ Len(in_f) = 3 /\ Capacitive = {1, 3}
    /\ Len(dp_f) = 2 /\ Len(f2_truncated) = 1

-----------------------------------------------------------------------------
(* simul_fit.  A float is <<n, d, e>>: the number n/d * 10^e when d > 0,    *)
(* and inf, -inf or nan when d = 0 and n is 1, -1 or 0.                     *)

inf == <<1, 0, 0>>
neg_inf == <<-1, 0, 0>>
nan == <<0, 0, 0>>
Float(n, d, e) == IF n = 0 THEN <<0, 1, 0>> ELSE <<Rat(n, d)[1], Rat(n, d)[2], e>>
FloatOf(k) == Float(k, 1, 0)
isinf(x) == x[2] = 0 /\ x[1] # 0
isnan(x) == x[2] = 0 /\ x[1] = 0
Sign(x) == IF x[1] > 0 THEN 1 ELSE IF x[1] < 0 THEN -1 ELSE 0

\* x / y in IEEE arithmetic
FDiv(x, y) ==
    IF isnan(x) \/ isnan(y) THEN nan
    ELSE IF isinf(x) THEN (IF isinf(y) THEN nan
                           ELSE IF Sign(x) * Sign(y) < 0 THEN neg_inf ELSE inf)
    ELSE IF isinf(y) THEN FloatOf(0)
    ELSE IF Sign(y) = 0 THEN (IF Sign(x) = 0 THEN nan
                              ELSE IF Sign(x) > 0 THEN inf ELSE neg_inf)
    ELSE Float(x[1] * y[2], x[2] * y[1], x[3] - y[3])

\* x * y in IEEE arithmetic
FMul(x, y) ==
    IF isnan(x) \/ isnan(y) THEN nan
    ELSE IF isinf(x) \/ isinf(y)
         THEN (IF Sign(x) * Sign(y) = 0 THEN nan
               ELSE IF Sign(x) * Sign(y) < 0 THEN neg_inf ELSE inf)
    ELSE Float(x[1] * y[1], x[2] * y[2], x[3] + y[3])

\* np.sqrt(x), kept as the number it is the root of
sqrt(x) == <<x>>

\* -1e10 and 1e10
neg_cap == <<-1, 1, 10>>
cap == <<1, 1, 10>>

\* entry-wise operations on arrays
VecDiv(x, y) == [i \in 1..Len(x) |-> FDiv(x[i], y[i])]
VecMul(x, y) == [i \in 1..Len(x) |-> FMul(x[i], y[i])]
ones(n) == [i \in 1..n |-> FloatOf(1)]

\* bounds as simul_fit holds them: None, the pair (lower, upper) the caller
\* passed, whose two members are lists or numpy arrays, a pair of arrays
\* the function built, or the array of two rows that bounds/ub gives
NoBounds == [form |-> "None", kind |-> "", lower |-> <<>>, upper |-> <<>>]
BoundsPair(k, lo, up) == [form |-> "pair", kind |-> k, lower |-> lo, upper |-> up]
BoundsArray(lo, up) == [form |-> "array", kind |-> "ndarray", lower |-> lo, upper |-> up]

\* np.any(np.isinf(bounds[0])) or np.any(np.isinf(bounds[1]))
inf_in_bounds(b) ==
    \/ \E i \in 1..Len(b.lower) : isinf(b.lower[i])
    \/ \E i \in 1..Len(b.upper) : isinf(b.upper[i])

\* x == v: entry by entry for a numpy array; a list is no float, and the
\* comparison of the whole list with the float is False
equals_mask(k, x, v) == [i \in 1..Len(x) |-> k = "ndarray" /\ x[i] = v]

\* np.where(x == v, w, x)
where_equal(k, x, v, w) ==
    [i \in 1..Len(x) |-> IF equals_mask(k, x, v)[i] THEN w ELSE x[i]]

\* what set_default_bounds gives (its code is in another file): by the
\* docstring of simul_fit, bounds of 0 and np.inf on the parameters
default_bounds(n) ==
    BoundsPair("ndarray", [i \in 1..n |-> FloatOf(0)], [i \in 1..n |-> inf])

default_ub_is_upper(b) == b.upper
\* line 151: ub = np.ones(len(bounds[1]))
default_ub(b) == ones(Len(b.upper))

\* lines 146-151: bounds is None
fit_DefaultBounds ==
    /\ fpc = "bounds" /\ bounds.form = "None"
    /\ bounds' = default_bounds(Len(initial_guess))
    /\ ub' = default_ub(bounds')
    /\ fpc' = "guess"
    /\ UNCHANGED <<frequencies, fit_Z1, fit_Z2, initial_guess, opt, max_f,
                   param_norm, positive, warned, popt, pcov, ret,
                   arg_bounds, arg_initial_guess, arg_frequencies, arg_Z1, arg_Z2>>
    /\ UNCHANGED svars
    /\ UNCHANGED notFit

\* lines 153-166 with inf in the bounds: lb, ub, bounds = (lb, ub), the
\* warning, and bounds = bounds/ub, every row divided by ub
fit_CapAndNormalize ==
    /\ fpc = "bounds" /\ bounds.form # "None" /\ param_norm
    /\ inf_in_bounds(bounds)
    /\ LET lb == where_equal(bounds.kind, bounds.lower, neg_inf, neg_cap)
           capped == where_equal(bounds.kind, bounds.upper, inf, cap)
       IN  /\ ub' = capped
           /\ bounds' = BoundsArray(VecDiv(lb, capped), VecDiv(capped, capped))
    /\ warned' = TRUE
    /\ fpc' = "guess"
    /\ UNCHANGED <<frequencies, fit_Z1, fit_Z2, initial_guess, opt, max_f,
                   param_norm, positive, popt, pcov, ret,
                   arg_bounds, arg_initial_guess, arg_frequencies, arg_Z1, arg_Z2>>
    /\ UNCHANGED svars
    /\ UNCHANGED notFit

\* lines 153-166 without inf in the bounds: nothing has bound ub when
\* bounds = bounds/ub reads it
fit_NormalizeFinite ==
    /\ fpc = "bounds" /\ bounds.form # "None" /\ param_norm
    /\ ~inf_in_bounds(bounds)
    /\ IF ub = <<>>
       THEN fpc' = "UnboundLocalError" /\ bounds' = bounds
       ELSE fpc' = "guess"
            /\ bounds' = BoundsArray(VecDiv(bounds.lower, ub), VecDiv(bounds.upper, ub))
    /\ UNCHANGED <<frequencies, fit_Z1, fit_Z2, initial_guess, opt, max_f,
                   param_norm, positive, ub, warned, popt, pcov, ret,
                   arg_bounds, arg_initial_guess, arg_frequencies, arg_Z1, arg_Z2>>
    /\ UNCHANGED svars
    /\ UNCHANGED notFit

\* lines 167-168: no normalization
fit_NoNormalization ==
    /\ fpc = "bounds" /\ bounds.form # "None" /\ ~param_norm
    /\ ub' = ones(Len(bounds.upper))
    /\ fpc' = "guess"
    /\ UNCHANGED <<frequencies, fit_Z1, fit_Z2, bounds, initial_guess, opt, max_f,
                   param_norm, positive, warned, popt, pcov, ret,
                   arg_bounds, arg_initial_guess, arg_frequencies, arg_Z1, arg_Z2>>
    /\ UNCHANGED svars
    /\ UNCHANGED notFit

\* line 170: initial_guess = initial_guess/ub
fit_ScaleGuess ==
    /\ fpc = "guess"
    /\ initial_guess' = VecDiv(initial_guess, ub)
    /\ fpc' = "preprocess"
    /\ UNCHANGED <<frequencies, fit_Z1, fit_Z2, bounds, opt, max_f,
                   param_norm, positive, ub, warned, popt, pcov, ret,
                   arg_bounds, arg_initial_guess, arg_frequencies, arg_Z1, arg_Z2>>
    /\ UNCHANGED svars
    /\ UNCHANGED notFit

fit_mask2_inclusive(fr, mx) == [i \in 1..Len(fr) |-> fr[i] <= mx]
\* mask2 = np.array(frequencies) < max_f
fit_mask2(fr, mx) == [i \in 1..Len(fr) |-> fr[i] < mx]
fit_mask1_nonpositive(Z) == [i \in 1..Len(Z) |-> imag(Z[i]) <= 0]
\* mask1 = np.array(Z1.imag) < 0
fit_mask1(Z) == [i \in 1..Len(Z) |-> imag(Z[i]) < 0]

\* np.hstack of two arrays
hstack(a, b) == a \o b
real(c) == c[1]

\* np.hstack([Z.real, Z.imag])
stack_of(Z) == hstack([i \in 1..Len(Z) |-> real(Z[i])], [i \in 1..Len(Z) |-> imag(Z[i])])

\* lines 183-185: Zstack = np.hstack([Z1stack, Z2stack])
fit_Zstack(Za, Zb) == hstack(stack_of(Za), stack_of(Zb))

\* max(np.abs(Z)), kept as the largest squared modulus
RECURSIVE max_abs(_)
max_abs(Z) ==
    IF Len(Z) = 1 THEN real(Z[1]) * real(Z[1]) + imag(Z[1]) * imag(Z[1])
    ELSE LET m == max_abs(Tail(Z))
             h == real(Z[1]) * real(Z[1]) + imag(Z[1]) * imag(Z[1])
         IN  IF h >= m THEN h ELSE m

\* np.ones(n)*Zmax/(c**0.5): n entries, each the weight Zmax over the root
\* of c, c being cost or 1-cost
weights(n, zmax, c) == [i \in 1..n |-> [max_abs |-> zmax, over |-> c]]

fit_sigma_of_linear_length(Za, Zb) ==
    hstack(weights(Len(stack_of(Za)), max_abs(Za), "cost**0.5"),
           weights(Len(stack_of(Za)), max_abs(Zb), "(1-cost)**0.5"))

\* lines 192-197: sigma1, sigma2, kwargs['sigma'] = np.hstack([sigma1, sigma2])
fit_sigma(Za, Zb) ==
    hstack(weights(Len(stack_of(Za)), max_abs(Za), "cost**0.5"),
           weights(Len(stack_of(Zb)), max_abs(Zb), "(1-cost)**0.5"))

wrap_mask_inclusive(fr, mx) == [i \in 1..Len(fr) |-> fr[i] <= mx]
\* in the wrapped functions: mask = np.array(frequencies) < max_f
wrap_mask(fr, mx) == [i \in 1..Len(fr) |-> fr[i] < mx]
\* f2 = frequencies[mask]
wrapped_f2(fr, mx) == BoolIndex(fr, wrap_mask(fr, mx))

\* wrappedCircuit_simul: x1 has a value for every frequency of f1 and x2
\* for every frequency of f2; an entry of the result is named by the part,
\* the model and the index it is taken from
wrappedCircuit_simul(fr, mx) ==
    LET f1 == fr
        f2 == wrapped_f2(fr, mx)
        y1_real == [i \in 1..Len(f1) |-> <<"real", "x1", i>>]
        y1_imag == [i \in 1..Len(f1) |-> <<"imag", "x1", i>>]
        y1_stack == hstack(y1_real, y1_imag)
        y2_real == [i \in 1..Len(f2) |-> <<"real", "x2", i>>]
        y2_imag == [i \in 1..Len(f2) |-> <<"imag", "x2", i>>]
        y2_stack == hstack(y2_real, y2_imag)
    IN  hstack(y1_stack, y2_stack)

\* lines 172-178 and 183-185: positive
fit_Positive ==
    /\ fpc = "preprocess" /\ positive
    /\ frequencies' = BoolIndex(frequencies, fit_mask1(fit_Z1))
    /\ fit_Z1' = BoolIndex(fit_Z1, fit_mask1(fit_Z1))
    /\ fit_Z2' = BoolIndex(BoolIndex(fit_Z2, fit_mask1(fit_Z1)),
                           fit_mask2(frequencies', max_f))
    /\ fpc' = "stacked"
    /\ UNCHANGED <<bounds, initial_guess, opt, max_f, param_norm, positive, ub,
                   warned, popt, pcov, ret,
                   arg_bounds, arg_initial_guess, arg_frequencies, arg_Z1, arg_Z2>>
    /\ Zstack' = fit_Zstack(fit_Z1', fit_Z2')
    /\ UNCHANGED <<sigma, wrap_f2, wrap_y>>
    /\ UNCHANGED notFit

\* lines 179-181 and 183-185: not positive
fit_NotPositive ==
    /\ fpc = "preprocess" /\ ~positive
    /\ fit_Z2' = BoolIndex(fit_Z2, fit_mask2(frequencies, max_f))
    /\ fpc' = "stacked"
    /\ UNCHANGED <<frequencies, fit_Z1, bounds, initial_guess, opt, max_f,
                   param_norm, positive, ub, warned, popt, pcov, ret,
                   arg_bounds, arg_initial_guess, arg_frequencies, arg_Z1, arg_Z2>>
    /\ Zstack' = fit_Zstack(fit_Z1, fit_Z2')
    /\ UNCHANGED <<sigma, wrap_f2, wrap_y>>
    /\ UNCHANGED notFit

\* lines 187-197: Z1max = max(np.abs(Z1)) and Z2max = max(np.abs(Z2)) raise
\* ValueError on an empty spectrum
fit_MaxWeights ==
    /\ fpc = "stacked" /\ opt = "max"
    /\ IF fit_Z1 = <<>> \/ fit_Z2 = <<>>
       THEN fpc' = "ValueError" /\ sigma' = sigma
       ELSE fpc' = "curve_fit" /\ sigma' = fit_sigma(fit_Z1, fit_Z2)
    /\ UNCHANGED <<frequencies, fit_Z1, fit_Z2, bounds, initial_guess, opt, max_f,
                   param_norm, positive, ub, warned, popt, pcov, ret,
                   arg_bounds, arg_initial_guess, arg_frequencies, arg_Z1, arg_Z2>>
    /\ UNCHANGED <<Zstack, wrap_f2, wrap_y>>
    /\ UNCHANGED notFit

\* what an optimizer may return: parameters in the scaled units, and for
\* curve_fit their covariance matrix
PoptChoices == { <<Float(1, 2, 0), FloatOf(3)>>, <<FloatOf(1), FloatOf(1)>> }
PcovChoices == { << <<Float(1, 4, 0), Float(1, 8, 0)>>,
                    <<Float(1, 8, 0), Float(1, 9, 0)>> >> }

\* lines 199-203: curve_fit calls the wrapped circuit and returns, or raises
fit_CurveFit ==
    /\ fpc = "curve_fit"
    /\ \/ /\ popt' \in PoptChoices
          /\ pcov' \in PcovChoices
          /\ wrap_f2' = wrapped_f2(frequencies, max_f)
          /\ wrap_y' = wrappedCircuit_simul(frequencies, max_f)
          /\ fpc' = "max_return"
       \/ /\ fpc' = "OptimizerError"
          /\ UNCHANGED <<popt, pcov, wrap_f2, wrap_y>>
    /\ UNCHANGED <<frequencies, fit_Z1, fit_Z2, bounds, initial_guess, opt, max_f,
                   param_norm, positive, ub, warned, ret,
                   arg_bounds, arg_initial_guess, arg_frequencies, arg_Z1, arg_Z2>>
    /\ UNCHANGED <<Zstack, sigma>>
    /\ UNCHANGED notFit

scaled_cov_once(u, cov) ==
    [i \in 1..Len(cov) |-> [k \in 1..Len(cov) |-> FMul(u[k], cov[i][k])]]
\* ub*pcov*ub.T: numpy multiplies every row of pcov entry by entry with ub,
\* twice, ub.T being ub for an array of one dimension
scaled_cov(u, cov) ==
    [i \in 1..Len(cov) |-> [k \in 1..Len(cov) |-> FMul(FMul(u[k], cov[i][k]), u[k])]]

\* np.diag
diag(M) == [i \in 1..Len(M) |-> M[i][i]]

\* lines 210-212: perror = np.sqrt(np.diag(ub*pcov*ub.T)); return popt*ub, perror
fit_MaxReturn ==
    /\ fpc = "max_return"
    /\ ret' = [p_values |-> VecMul(popt, ub),
               p_errors |-> [i \in 1..Len(popt) |-> sqrt(diag(scaled_cov(ub, pcov))[i])]]
    /\ fpc' = "returned"
    /\ UNCHANGED <<frequencies, fit_Z1, fit_Z2, bounds, initial_guess, opt, max_f,
                   param_norm, positive, ub, warned, popt, pcov,
                   arg_bounds, arg_initial_guess, arg_frequencies, arg_Z1, arg_Z2>>
    /\ UNCHANGED svars
    /\ UNCHANGED notFit

\* lines 213-224: bounds as a tuple of (lower, upper) pairs; minimize
\* returns res, or raises
fit_Minimize ==
    /\ fpc = "stacked" /\ opt # "max" /\ opt = "neg"
    /\ bounds' = [bounds EXCEPT !.form = "pairs", !.kind = "tuple"]
    /\ \/ /\ popt' \in PoptChoices
          /\ wrap_f2' = wrapped_f2(frequencies, max_f)
          /\ fpc' = "neg_return"
       \/ /\ fpc' = "OptimizerError"
          /\ UNCHANGED <<popt, wrap_f2>>
    /\ UNCHANGED <<frequencies, fit_Z1, fit_Z2, initial_guess, opt, max_f,
                   param_norm, positive, ub, warned, pcov, ret,
                   arg_bounds, arg_initial_guess, arg_frequencies, arg_Z1, arg_Z2>>
    /\ UNCHANGED <<Zstack, sigma, wrap_y>>
    /\ UNCHANGED notFit

\* line 226: return (res.x*ub, None)
fit_NegReturn ==
    /\ fpc = "neg_return"
    /\ ret' = [p_values |-> VecMul(popt, ub), p_errors |-> None]
    /\ fpc' = "returned"
    /\ UNCHANGED <<frequencies, fit_Z1, fit_Z2, bounds, initial_guess, opt, max_f,
                   param_norm, positive, ub, warned, popt, pcov,
                   arg_bounds, arg_initial_guess, arg_frequencies, arg_Z1, arg_Z2>>
    /\ UNCHANGED svars
    /\ UNCHANGED notFit

\* any other opt: the function ends without a return statement
fit_FallThrough ==
    /\ fpc = "stacked" /\ opt # "max" /\ opt # "neg"
    /\ fpc' = "returned_None"
    /\ UNCHANGED <<frequencies, fit_Z1, fit_Z2, bounds, initial_guess, opt, max_f,
                   param_norm, positive, ub, warned, popt, pcov, ret,
                   arg_bounds, arg_initial_guess, arg_frequencies, arg_Z1, arg_Z2>>
    /\ UNCHANGED svars
    /\ UNCHANGED notFit

MaxFitPoints == 2

\* x <= y for floats; the mantissas of the model lie within a factor of
\* 10^5 of each other, so that of two numbers of one sign and different
\* exponents the exponent decides
FLe(x, y) ==
    IF isnan(x) \/ isnan(y) THEN FALSE
    ELSE IF isinf(x) THEN Sign(x) < 0 \/ (isinf(y) /\ Sign(y) > 0)
    ELSE IF isinf(y) THEN Sign(y) > 0
    ELSE IF Sign(x) # Sign(y) THEN Sign(x) < Sign(y)
    ELSE IF Sign(x) = 0 THEN TRUE
    ELSE IF x[3] = y[3] THEN x[1] * y[2] <= y[1] * x[2]
    ELSE IF Sign(x) > 0 THEN x[3] < y[3] ELSE x[3] > y[3]

\* the two parameters' bounds a caller passes, members as lists or as
\* arrays, every lower bound at most its upper bound
LowerChoices == { <<FloatOf(0), FloatOf(0)>>, <<neg_inf, FloatOf(-5)>> }
UpperChoices == { <<FloatOf(2), FloatOf(4)>>, <<inf, FloatOf(4)>>, <<inf, FloatOf(-1)>> }
BoundsChoices ==
    {NoBounds} \cup
    { b \in { BoundsPair(k, lo, up) : k \in {"list", "ndarray"},
                                      lo \in LowerChoices, up \in UpperChoices } :
        \A i \in 1..Len(b.lower) : FLe(b.lower[i], b.upper[i]) }
FitImagVals == {-1, 0, 1}

FitInit ==
    /\ \E n \in 0..MaxFitPoints :
         /\ frequencies \in [1..n -> FreqVals]
         /\ \E ims \in [1..n -> FitImagVals] : fit_Z1 = [i \in 1..n |-> <<i, ims[i]>>]
         /\ fit_Z2 = [i \in 1..n |-> Z2At(i)]
    /\ bounds \in BoundsChoices
    /\ initial_guess = <<FloatOf(1), FloatOf(2)>>
    /\ opt \in {"max", "neg", "other"}
    /\ max_f \in MaxFVals
    /\ param_norm \in BOOLEAN
    /\ positive \in BOOLEAN
    /\ ub = <<>> /\ warned = FALSE /\ popt = <<>> /\ pcov = <<>> /\ ret = <<>>
    /\ fpc = "bounds"
    /\ arg_bounds = bounds /\ arg_initial_guess = initial_guess
    /\ arg_frequencies = frequencies /\ arg_Z1 = fit_Z1 /\ arg_Z2 = fit_Z2
    /\ PartitionOff /\ RegistryOff /\ CallOff /\ LadderOff /\ DiffOff /\ DataOff /\ StackOff

FitNext ==
    \/ fit_DefaultBounds \/ fit_CapAndNormalize \/ fit_NormalizeFinite
    \/ fit_NoNormalization \/ fit_ScaleGuess
    \/ fit_Positive \/ fit_NotPositive
    \/ fit_MaxWeights \/ fit_CurveFit \/ fit_MaxReturn
    \/ fit_Minimize \/ fit_NegReturn \/ fit_FallThrough

SpecFit == FitInit /\ [][FitNext]_vars

\* simul_fit has reached the optimizer or gone past it
AtOptimizer == fpc \in {"stacked", "curve_fit", "max_return", "neg_return",
                        "OptimizerError", "ValueError", "returned", "returned_None"}
FiniteBoundsGiven ==
    /\ arg_bounds.form = "pair"
    /\ ~inf_in_bounds(arg_bounds)
InfiniteBoundsGiven ==
    /\ arg_bounds.form = "pair"
    /\ inf_in_bounds(arg_bounds)

\* C14: simul_fit called with bounds that are all finite and with
\* param_norm=True raises no error in its handling of the bounds: once the
\* bounds are handled, the initial guess and both bound vectors are what the
\* caller passed divided entry by entry by the upper bounds, on the way to
\* the optimizer.
C14_FiniteBoundsNormalized ==
    (fpc # "off" /\ param_norm /\ FiniteBoundsGiven) =>
        /\ fpc # "UnboundLocalError"
        /\ (fpc \notin {"bounds", "guess"} =>
              /\ initial_guess = VecDiv(arg_initial_guess, arg_bounds.upper)
              /\ (bounds.form = "array" =>
                    /\ bounds.lower = VecDiv(arg_bounds.lower, arg_bounds.upper)
                    /\ bounds.upper = VecDiv(arg_bounds.upper, arg_bounds.upper)))

\* where(x, v, w): x with every entry equal to v replaced by w
Capped(x, v, w) == [i \in 1..Len(x) |-> IF x[i] = v THEN w ELSE x[i]]

\* C15: simul_fit with param_norm=True and bounds holding an infinite entry:
\* every -inf lower bound is replaced by -1e10 and every +inf upper bound by
\* 1e10, a warning is emitted, no error is raised, and the bounds and the
\* initial guess go on divided by the capped upper bounds.
C15_InfiniteBoundsCapped ==
    (fpc \notin {"off", "bounds"} /\ param_norm /\ InfiniteBoundsGiven) =>
        /\ warned
        /\ fpc # "UnboundLocalError"
        /\ ub = Capped(arg_bounds.upper, inf, cap)
        /\ (bounds.form = "array" =>
              /\ bounds.lower = VecDiv(Capped(arg_bounds.lower, neg_inf, neg_cap), ub)
              /\ bounds.upper = VecDiv(ub, ub))
        /\ (fpc # "guess" => initial_guess = VecDiv(arg_initial_guess, ub))

\* C16: simul_fit returns results in original units: with opt = 'max' the
\* returned parameters are the optimizer's parameters times ub, entry by
\* entry, and the returned uncertainty of parameter i is
\* sqrt(pcov[i][i] * ub[i]^2); with opt = 'neg' the returned parameters are
\* rescaled the same way and the uncertainty is None.
C16_OriginalUnits ==
    fpc = "returned" =>
        /\ Len(ret.p_values) = Len(popt)
        /\ \A i \in 1..Len(popt) : ret.p_values[i] = FMul(popt[i], ub[i])
        /\ (opt = "max" =>
              /\ Len(ret.p_errors) = Len(popt)
              /\ \A i \in 1..Len(popt) :
                    ret.p_errors[i] = sqrt(FMul(pcov[i][i], FMul(ub[i], ub[i]))))
        /\ (opt = "neg" => ret.p_errors = None)

\* a least-squares fit has returned with a scaling of 4 on the second
\* parameter: its value 3 came back as 12 and its variance 1/9 as 16/9
C16_Witness ==
    /\ fpc = "returned" /\ opt = "max"
    /\ ub[2] = FloatOf(4)
    /\ popt[2] = FloatOf(3) /\ ret.p_values[2] = FloatOf(12)
    /\ ret.p_errors[2] = sqrt(Float(16, 9, 0))

-----------------------------------------------------------------------------
(* The truncation of the nonlinear spectrum, in data_processing and in      *)
(* simul_fit.                                                               *)

TruncationInit == DataInit \/ FitInit
TruncationNext == DataNext \/ FitNext
SpecTruncation == TruncationInit /\ [][TruncationNext]_vars

Below(fr, mx) == {i \in 1..Len(fr) : fr[i] < mx}
NotAbove(fr, mx) == {i \in 1..Len(fr) : fr[i] <= mx}

\* simul_fit is past its preprocessing
Preprocessed == fpc \in {"stacked", "curve_fit", "max_return", "neg_return",
                         "OptimizerError", "ValueError", "returned", "returned_None"}
\* the Z2 that simul_fit truncates: what was passed, without the points of
\* non-negative Im(Z1) when positive is set
FitCapacitive == {i \in 1..Len(arg_Z1) : arg_Z1[i][2] < 0}
Z2BeforeTruncation == IF positive THEN Pick(arg_Z2, FitCapacitive) ELSE arg_Z2

\* C20 (amended): the truncation in simul_fit and in data_processing keeps a
\* point of the nonlinear spectrum exactly when its frequency is strictly
\* less than max_f; a point whose frequency equals max_f is discarded.
C20_KeptStrictlyBelow ==
    /\ dp_pc = "done" =>
         /\ f2_truncated = Pick(dp_f, Below(dp_f, dp_max_f))
         /\ Z2_truncated = Pick(dp_Z2, Below(dp_f, dp_max_f))
         /\ \A i \in 1..Len(f2_truncated) : f2_truncated[i] # dp_max_f
    /\ Preprocessed =>
         fit_Z2 = Pick(Z2BeforeTruncation, Below(frequencies, max_f))

\* C20 as stated: a point of the nonlinear spectrum is discarded exactly
\* when its frequency exceeds max_f, and a point at max_f is kept.
C20_AsStated ==
    /\ dp_pc = "done" =>
         /\ f2_truncated = Pick(dp_f, NotAbove(dp_f, dp_max_f))
         /\ Z2_truncated = Pick(dp_Z2, NotAbove(dp_f, dp_max_f))
    /\ Preprocessed =>
         fit_Z2 = Pick(Z2BeforeTruncation, NotAbove(frequencies, max_f))

\* data_processing has returned for capacitive points of which one is below
\* max_f and kept, and one is at max_f and gone from the nonlinear spectrum
C20_Witness ==
    /\ dp_pc = "done"
    /\ \E i \in 1..Len(dp_f) : dp_f[i] = dp_max_f
    /\ \E i \in 1..Len(dp_f) : dp_f[i] < dp_max_f
    /\ Len(f2_truncated) >= 1
    /\ Len(f2_truncated) < Len(dp_f)
    /\ \A i \in 1..Len(dp_f) : dp_f[i] <= dp_max_f

-----------------------------------------------------------------------------
(* The preprocessing of simul_fit.                                          *)

\* C21: with positive=True simul_fit removes from frequencies, Z1 and Z2
\* jointly exactly the indices where Im(Z1) >= 0, before the nonlinear
\* truncation; with positive=False frequencies and Z1 reach the optimizer as
\* passed and only Z2 is truncated to the points with frequency below max_f.
C21_InductiveFiltering ==
    Preprocessed =>
        /\ (positive =>
              /\ frequencies = Pick(arg_frequencies, FitCapacitive)
              /\ fit_Z1 = Pick(arg_Z1, FitCapacitive)
              /\ fit_Z2 = Pick(Pick(arg_Z2, FitCapacitive),
                               Below(Pick(arg_frequencies, FitCapacitive), max_f)))
        /\ (~positive =>
              /\ frequencies = arg_frequencies
              /\ fit_Z1 = arg_Z1
              /\ fit_Z2 = Pick(arg_Z2, Below(arg_frequencies, max_f)))

\* simul_fit with positive=True is past its preprocessing of two points, the
\* first with Im(Z1) = 0 and removed, the second capacitive, below max_f and
\* kept in both spectra
C21_Witness ==
    /\ Preprocessed /\ positive
    /\ Len(arg_Z1) = 2 /\ arg_Z1[1][2] = 0 /\ arg_Z1[2][2] < 0
    /\ Len(frequencies) = 1 /\ fit_Z1 = <<arg_Z1[2]>> /\ fit_Z2 = <<arg_Z2[2]>>

\* the entry of the layout [Re Z1, Im Z1, Re Z2, Im Z2] at position k, for
\* n1 points of the first spectrum and n2 of the second: the part, the
\* spectrum and the index of the point
LayoutAt(k, n1, n2) ==
    IF k <= n1 THEN <<"real", 1, k>>
    ELSE IF k <= 2 * n1 THEN <<"imag", 1, k - n1>>
    ELSE IF k <= 2 * n1 + n2 THEN <<"real", 2, k - 2 * n1>>
    ELSE <<"imag", 2, k - 2 * n1 - n2>>
PartOf(part, c) == IF part = "real" THEN c[1] ELSE c[2]

\* C22: when curve_fit has called the wrapped circuit, the model vector and
\* the target vector Zstack have the layout [Re Z1, Im Z1, Re Z2, Im Z2] and
\* the length 2*|f| + 2*|f2|, f being the retained frequencies and f2 those
\* below max_f; sigma has that length, its first 2*|f| entries the weight of
\* the linear spectrum and the other 2*|f2| that of the nonlinear spectrum.
C22_ResidualLayout ==
    fpc = "max_return" =>
        LET n1 == Len(frequencies)
            n2 == Cardinality(Below(frequencies, max_f))
            len == 2 * n1 + 2 * n2
        IN  /\ Len(wrap_y) = len /\ Len(Zstack) = len /\ Len(sigma) = len
            /\ \A k \in 1..len :
                 LET at == LayoutAt(k, n1, n2)
                 IN  /\ wrap_y[k] = <<at[1], IF at[2] = 1 THEN "x1" ELSE "x2", at[3]>>
                     /\ Zstack[k] = PartOf(at[1], IF at[2] = 1 THEN fit_Z1[at[3]]
                                                  ELSE fit_Z2[at[3]])
                     /\ sigma[k] = IF at[2] = 1
                                   THEN [max_abs |-> max_abs(fit_Z1), over |-> "cost**0.5"]
                                   ELSE [max_abs |-> max_abs(fit_Z2), over |-> "(1-cost)**0.5"]

\* curve_fit has returned for two retained frequencies of which one is
\* below max_f: the three vectors have 6 entries
C22_Witness ==
    /\ fpc = "max_return"
    /\ Len(frequencies) = 2 /\ Len(fit_Z2) = 1
    /\ Len(wrap_y) = 6 /\ Len(Zstack) = 6 /\ Len(sigma) = 6
    /\ sigma[4] # sigma[5]

-----------------------------------------------------------------------------
(* The handling of the bounds in simul_fit.                                 *)

\* C26: with bounds omitted simul_fit applies no scaling whatever param_norm
\* is: ub is all ones, the default bounds are neither capped nor normalized
\* and no warning is emitted, the initial guess reaches the optimizer as it
\* was passed, and the returned parameters are the optimizer's.
C26_NoBoundsNoScaling ==
    (fpc \notin {"off", "bounds"} /\ arg_bounds = NoBounds) =>
        /\ ub = ones(Len(arg_initial_guess))
        /\ ~warned
        /\ fpc # "UnboundLocalError"
        /\ (bounds.form # "pairs" => bounds = default_bounds(Len(arg_initial_guess)))
        /\ (bounds.form = "pairs" =>
              /\ bounds.lower = default_bounds(Len(arg_initial_guess)).lower
              /\ bounds.upper = default_bounds(Len(arg_initial_guess)).upper)
        /\ (fpc # "guess" => initial_guess = arg_initial_guess)
        /\ (fpc = "returned" => ret.p_values = popt)

\* a call without bounds and with param_norm=True has returned from the
\* least-squares fit
C26_Witness ==
    /\ fpc = "returned" /\ arg_bounds = NoBounds /\ param_norm /\ opt = "max"
    /\ ret.p_values = popt /\ popt[1] = Float(1, 2, 0)
    /\ bounds.upper = <<inf, inf>>

\* simul_fit has handed bounds to curve_fit or to minimize
BoundsPassed == fpc \in {"curve_fit", "max_return", "neg_return", "returned"}
                \/ (fpc = "OptimizerError")

\* C27: for bounds of the caller with lb[i] <= ub[i] for every parameter,
\* the normalized bounds that simul_fit passes to the optimizer satisfy
\* lb'[i] <= ub'[i], and every normalized upper bound equals 1.
C27_NormalizedBoundsOrdered ==
    (BoundsPassed /\ param_norm /\ arg_bounds.form = "pair") =>
        \A i \in 1..Len(bounds.upper) :
            /\ FLe(bounds.lower[i], bounds.upper[i])
            /\ bounds.upper[i] = FloatOf(1)

-----------------------------------------------------------------------------
(* The choice of the optimizer in simul_fit.                                *)

OptimizerInvoked ==
    fpc \in {"curve_fit", "max_return", "neg_return", "OptimizerError", "returned"}

FitErrors == {"UnboundLocalError", "ValueError", "OptimizerError"}

\* C28: simul_fit invokes an optimizer and returns a pair of parameters and
\* uncertainties only when opt is 'max' or 'neg'; for any other opt it
\* handles the bounds and preprocesses the data, invokes no optimizer,
\* raises no error and returns None.
C28_OtherOptReturnsNone ==
    /\ OptimizerInvoked => opt \in {"max", "neg"}
    /\ (fpc = "returned" => DOMAIN ret = {"p_values", "p_errors"})
    /\ (fpc # "off" /\ opt \notin {"max", "neg"}) =>
          /\ fpc \notin FitErrors
          /\ ret = None /\ popt = <<>> /\ pcov = <<>>
          /\ (Preprocessed => fpc \in {"stacked", "returned_None"} /\ ub # <<>>)

-----------------------------------------------------------------------------
(* simul_fit and data_processing given the same data.                       *)

\* what data_processing(f, Z1, Z2, max_f) returns, step by step as its code
data_processing(fr, Za, Zb, mx) ==
    LET mask == dp_mask(Za)
        f_kept == BoolIndex(fr, mask)
        Z1_kept == BoolIndex(Za, mask)
        Z2_kept == BoolIndex(Zb, mask)
        mask1 == dp_mask1(f_kept, mx)
    IN  [f |-> f_kept, Z1 |-> Z1_kept, Z2 |-> Z2_kept,
         f2_truncated |-> BoolIndex(f_kept, mask1),
         Z2_truncated |-> BoolIndex(Z2_kept, mask1)]

\* C29: for equal inputs the preprocessing of simul_fit with positive=True
\* leaves the frequencies, the Z1 and the truncated Z2 that
\* data_processing(f, Z1, Z2, max_f) returns as f, Z1 and Z2_truncated, and
\* the frequencies the wrapped functions use for the nonlinear model are
\* its f2_truncated.
C29_SameAsDataProcessing ==
    (Preprocessed /\ positive) =>
        LET dp == data_processing(arg_frequencies, arg_Z1, arg_Z2, max_f)
        IN  /\ frequencies = dp.f
            /\ fit_Z1 = dp.Z1
            /\ fit_Z2 = dp.Z2_truncated
            /\ (fpc \in {"max_return", "neg_return", "returned"} =>
                  wrap_f2 = dp.f2_truncated)

\* a fit with positive=True has called its wrapped function on two points,
\* one inductive and one capacitive below max_f
C29_Witness ==
    /\ fpc \in {"max_return", "neg_return"} /\ positive
    /\ Len(arg_frequencies) = 2 /\ Len(frequencies) = 1
    /\ wrap_f2 = frequencies /\ Len(fit_Z2) = 1

=============================================================================
